---- MODULE Spec2Model ----
(***************************************************************************)
(* Model of the Express server of Simple-Go-Schedule (src/server/routes.ts):*)
(* the /api/journey aggregation handler with its schedule parse, direction  *)
(* filter, real-time merge, sort and alert filter, and the credential guard *)
(* of the other upstream-backed endpoints; and the saved-routes storage of   *)
(* the client (src/client/lib/storage.ts).                                  *)
(*                                                                          *)
(* JavaScript values: strings are TLA+ strings, an absent (undefined)       *)
(* property is the marker Undefined, a number is a record [nan, v] so that  *)
(* NaN is a value of the model, a JSON null record has kind = "null".       *)
(***************************************************************************)
EXTENDS Integers, Sequences, FiniteSets, TLC

VARIABLES
    apiKey,             \* process.env.METROLINX_API_KEY is set
    endpoint,           \* the route whose handler is running
    pc,                 \* position of the handler
    origin,             \* req.query.origin
    destination,        \* req.query.destination
    stop,               \* req.query.stop (/api/departures)
    journeyResult,      \* settled result of the Schedule/Journey fetch
    nextServiceResult,  \* settled result of the Stop/NextService fetch
    alertsResult,       \* settled result of the ServiceAlert fetch
    otherResult,        \* settled result of the fetch of the simple endpoints
    scheduleDepartures, \* routes.ts:138
    filteredRealTime,   \* routes.ts:205
    mergedDepartures,   \* routes.ts:261 (after step 4)
    sortedDepartures,   \* routes.ts:305
    response,           \* what res.status(..).json(..) sent
    upstreamCalls,      \* the fetchMetrolinx calls issued, in order
    peer,               \* a second /api/journey request in flight: its own locals
    routesItem,         \* client: the AsyncStorage item under ROUTES_KEY
    storageCalls,       \* client: the saveRoute / deleteRoute calls in flight
    storageLog          \* client: the calls made and what saveRoute returned

vars == <<apiKey, endpoint, pc, origin, destination, stop, journeyResult,
          nextServiceResult, alertsResult, otherResult, scheduleDepartures,
          filteredRealTime, mergedDepartures, sortedDepartures, response,
          upstreamCalls, peer, routesItem, storageCalls, storageLog>>

serverVars == <<apiKey, endpoint, pc, origin, destination, stop, journeyResult,
                nextServiceResult, alertsResult, otherResult, scheduleDepartures,
                filteredRealTime, mergedDepartures, sortedDepartures, response,
                upstreamCalls, peer>>

clientVars == <<routesItem, storageCalls, storageLog>>

-----------------------------------------------------------------------------
(* JavaScript values *)

Undefined == "<undefined>"

\* x || d for a string-valued property
OrElse(x, d) == IF x = Undefined \/ x = "" THEN d ELSE x

\* truthiness of a string-valued property
Truthy(x) == x # Undefined /\ x # ""

Num(n) == [nan |-> FALSE, v |-> n]
NaN == [nan |-> TRUE, v |-> 0]

-----------------------------------------------------------------------------
(* String.prototype methods *)

CharAt(s, i) == SubSeq(s, i, i)

\* s.includes(sub)
Includes(s, sub) ==
    \/ Len(sub) = 0
    \/ \E i \in 1..(Len(s) - Len(sub) + 1) : SubSeq(s, i, i + Len(sub) - 1) = sub

\* s.indexOf(sub), 1-based; 0 when absent
IndexOfStr(s, sub) ==
    LET hits == {i \in 1..(Len(s) - Len(sub) + 1) : SubSeq(s, i, i + Len(sub) - 1) = sub}
    IN IF hits = {} THEN 0 ELSE CHOOSE i \in hits : \A j \in hits : i <= j

LowerChar(c) ==
    CASE c = "A" -> "a" [] c = "B" -> "b" [] c = "C" -> "c" [] c = "D" -> "d"
      [] c = "E" -> "e" [] c = "F" -> "f" [] c = "G" -> "g" [] c = "H" -> "h"
      [] c = "I" -> "i" [] c = "J" -> "j" [] c = "K" -> "k" [] c = "L" -> "l"
      [] c = "M" -> "m" [] c = "N" -> "n" [] c = "O" -> "o" [] c = "P" -> "p"
      [] c = "Q" -> "q" [] c = "R" -> "r" [] c = "S" -> "s" [] c = "T" -> "t"
      [] c = "U" -> "u" [] c = "V" -> "v" [] c = "W" -> "w" [] c = "X" -> "x"
      [] c = "Y" -> "y" [] c = "Z" -> "z" [] OTHER -> c

RECURSIVE ToLowerCase(_)
ToLowerCase(s) ==
    IF Len(s) = 0 THEN ""
    ELSE LowerChar(CharAt(s, 1)) \o ToLowerCase(SubSeq(s, 2, Len(s)))

RECURSIVE TrimStart(_)
TrimStart(s) ==
    IF Len(s) > 0 /\ CharAt(s, 1) = " " THEN TrimStart(SubSeq(s, 2, Len(s))) ELSE s

RECURSIVE TrimEnd(_)
TrimEnd(s) ==
    IF Len(s) > 0 /\ CharAt(s, Len(s)) = " " THEN TrimEnd(SubSeq(s, 1, Len(s) - 1)) ELSE s

\* s.trim()
Trim(s) == TrimEnd(TrimStart(s))

\* s.replace(" ", "T"): the first blank only
ReplaceBlankByT(s) ==
    LET i == IndexOfStr(s, " ")
    IN IF i = 0 THEN s ELSE SubSeq(s, 1, i - 1) \o "T" \o SubSeq(s, i + 1, Len(s))

\* s.split(" - ").slice(1).join(" - "): what follows the first " - "
AfterSeparator(s) ==
    LET i == IndexOfStr(s, " - ")
    IN IF i = 0 THEN "" ELSE SubSeq(s, i + 3, Len(s))

\* s.startsWith(p)
StartsWith(s, p) == Len(s) >= Len(p) /\ SubSeq(s, 1, Len(p)) = p

-----------------------------------------------------------------------------
(* new Date(s).getTime() for the ISO local date-times of one service day.    *)
(* The value is in milliseconds from 2024-06-01T00:00 local time.            *)

DigitValue(c) ==
    CASE c = "0" -> 0 [] c = "1" -> 1 [] c = "2" -> 2 [] c = "3" -> 3 [] c = "4" -> 4
      [] c = "5" -> 5 [] c = "6" -> 6 [] c = "7" -> 7 [] c = "8" -> 8 [] c = "9" -> 9
      [] OTHER -> -1

IsDigit(c) == DigitValue(c) >= 0

TwoDigits(s, i) == 10 * DigitValue(CharAt(s, i)) + DigitValue(CharAt(s, i + 1))

AreTwoDigits(s, i) == IsDigit(CharAt(s, i)) /\ IsDigit(CharAt(s, i + 1))

\* "2024-06-DDTHH:MM" or "2024-06-DDTHH:MM:SS"
IsIsoLocal(s) ==
    /\ Len(s) \in {16, 19}
    /\ SubSeq(s, 1, 8) = "2024-06-"
    /\ AreTwoDigits(s, 9) /\ TwoDigits(s, 9) \in 1..30
    /\ CharAt(s, 11) = "T"
    /\ AreTwoDigits(s, 12) /\ TwoDigits(s, 12) \in 0..23
    /\ CharAt(s, 14) = ":"
    /\ AreTwoDigits(s, 15) /\ TwoDigits(s, 15) \in 0..59
    /\ (Len(s) = 19 =>
          /\ CharAt(s, 17) = ":"
          /\ AreTwoDigits(s, 18) /\ TwoDigits(s, 18) \in 0..59)

DateGetTime(s) ==
    IF IsIsoLocal(s)
    THEN Num((((TwoDigits(s, 9) - 1) * 24 + TwoDigits(s, 12)) * 60 + TwoDigits(s, 15)) * 60000
             + (IF Len(s) = 19 THEN TwoDigits(s, 18) * 1000 ELSE 0))
    ELSE NaN

\* new Date(t.replace(" ", "T")).getTime()
ParseTime(t) == DateGetTime(ReplaceBlankByT(t))

\* Math.round(x / 60000): the nearest integer, halves towards +Infinity
RoundMinutes(ms) == (ms + 30000) \div 60000

-----------------------------------------------------------------------------
(* Static line topology *)

\* Object.entries(LINE_DESTINATIONS), in declaration order
LINE_DESTINATIONS ==
    << [code |-> "LW", stations |-> <<"AL", "BU", "AP", "BO", "OA", "CL", "PO", "LO", "MI", "EX", "UN", "HA", "WR", "SCTH", "NI">>],
       [code |-> "LE", stations |-> <<"OS", "WH", "AJ", "PIN", "RO", "GU", "EG", "SC", "DA", "UN">>],
       [code |-> "ML", stations |-> <<"ML", "LS", "ME", "SR", "ER", "CO", "DI", "KP", "UN">>],
       [code |-> "GT", stations |-> <<"KI", "GL", "AC", "GE", "MO", "BR", "BE", "MA", "ET", "WE", "BL", "UN">>],
       [code |-> "BA", stations |-> <<"BA", "AD", "BD", "EA", "NE", "AU", "KC", "MP", "RU", "DW", "UN">>],
       [code |-> "RH", stations |-> <<"RI", "BM", "GO", "LA", "OL", "OR", "UN">>],
       [code |-> "ST", stations |-> <<"LI", "ST", "MJ", "MR", "CE", "UI", "MK", "AG", "KE", "UN">> ] >>

TRAIN_LINE_CODES == {"LW", "LE", "ML", "GT", "BA", "RH", "ST", "KI"}

STATION_NAMES ==
    ( "UN" :> "Union" @@ "AL" :> "Aldershot" @@ "BU" :> "Burlington" @@ "AP" :> "Appleby"
   @@ "BO" :> "Bronte" @@ "OA" :> "Oakville" @@ "CL" :> "Clarkson" @@ "PO" :> "Port Credit"
   @@ "LO" :> "Long Branch" @@ "MI" :> "Mimico" @@ "EX" :> "Exhibition" @@ "HA" :> "Hamilton"
   @@ "WR" :> "West Harbour" @@ "NI" :> "Niagara" @@ "OS" :> "Oshawa" @@ "WH" :> "Whitby"
   @@ "AJ" :> "Ajax" @@ "PIN" :> "Pickering" @@ "RO" :> "Rouge Hill" @@ "GU" :> "Guildwood"
   @@ "EG" :> "Eglinton" @@ "SC" :> "Scarborough" @@ "DA" :> "Danforth" @@ "ML" :> "Milton"
   @@ "LS" :> "Lisgar" @@ "ME" :> "Meadowvale" @@ "SR" :> "Streetsville" @@ "ER" :> "Erindale"
   @@ "CO" :> "Cooksville" @@ "DI" :> "Dixie" @@ "KP" :> "Kipling" @@ "KI" :> "Kitchener"
   @@ "GL" :> "Guelph" @@ "AC" :> "Acton" @@ "GE" :> "Georgetown" @@ "MO" :> "Mount Pleasant"
   @@ "BR" :> "Brampton" @@ "BE" :> "Bramalea" @@ "MA" :> "Malton" @@ "ET" :> "Etobicoke North"
   @@ "WE" :> "Weston" @@ "BL" :> "Bloor" @@ "BA" :> "Barrie South" @@ "AD" :> "Allandale Waterfront"
   @@ "BD" :> "Bradford" @@ "EA" :> "East Gwillimbury" @@ "NE" :> "Newmarket" @@ "AU" :> "Aurora"
   @@ "KC" :> "King City" @@ "MP" :> "Maple" @@ "RU" :> "Rutherford" @@ "DW" :> "Downsview Park"
   @@ "RI" :> "Richmond Hill" @@ "BM" :> "Bloomington" @@ "GO" :> "Gormley" @@ "LA" :> "Langstaff"
   @@ "OL" :> "Old Cummer" @@ "OR" :> "Oriole" @@ "LI" :> "Lincolnville" @@ "ST" :> "Stouffville"
   @@ "MJ" :> "Mount Joy" @@ "MR" :> "Markham" @@ "CE" :> "Centennial" @@ "UI" :> "Unionville"
   @@ "MK" :> "Milliken" @@ "AG" :> "Agincourt" @@ "KE" :> "Kennedy" @@ "CF" :> "Confederation"
   @@ "WS" :> "Whitchurch-Stouffville" @@ "SCTH" :> "St. Catharines" )

\* STATION_NAMES[code] || code
StationName(code) == IF code \in DOMAIN STATION_NAMES THEN STATION_NAMES[code] ELSE code

\* stations.includes(code)
SeqIncludes(seq, x) == \E i \in 1..Len(seq) : seq[i] = x

\* stations.indexOf(code), 0-based; -1 when absent
SeqIndexOf(seq, x) ==
    IF SeqIncludes(seq, x)
    THEN (CHOOSE i \in 1..Len(seq) : seq[i] = x /\ \A j \in 1..(i - 1) : seq[j] # x) - 1
    ELSE -1

\* LINE_DESTINATIONS[lineCode] || []
LineStations(lineCode) ==
    IF \E i \in 1..Len(LINE_DESTINATIONS) : LINE_DESTINATIONS[i].code = lineCode
    THEN LINE_DESTINATIONS[CHOOSE i \in 1..Len(LINE_DESTINATIONS) : LINE_DESTINATIONS[i].code = lineCode].stations
    ELSE <<>>

getVehicleType(lineCode, lineName) ==
    IF lineCode \in TRAIN_LINE_CODES THEN "train"
    ELSE IF Includes(ToLowerCase(lineName), "bus") THEN "bus"
    ELSE IF Includes(ToLowerCase(lineName), "train") THEN "train"
    ELSE IF StartsWith(lineCode, "B") \/ Len(lineCode) > 2 THEN "bus"
    ELSE "train"

\* a scan that keeps the last line holding both codes
getLineForRouteLastMatch(o, d) ==
    LET serving == {i \in 1..Len(LINE_DESTINATIONS) :
                       /\ SeqIncludes(LINE_DESTINATIONS[i].stations, o)
                       /\ SeqIncludes(LINE_DESTINATIONS[i].stations, d)}
    IN IF serving = {} THEN Undefined
       ELSE LINE_DESTINATIONS[CHOOSE i \in serving : \A j \in serving : j <= i].code

\* the first line, in declaration order, that holds both codes; Undefined if none
getLineForRoute(o, d) ==
    LET serving == {i \in 1..Len(LINE_DESTINATIONS) :
                       /\ SeqIncludes(LINE_DESTINATIONS[i].stations, o)
                       /\ SeqIncludes(LINE_DESTINATIONS[i].stations, d)}
    IN IF serving = {} THEN Undefined
       ELSE LINE_DESTINATIONS[CHOOSE i \in serving : \A j \in serving : i <= j].code

-----------------------------------------------------------------------------
(* Real-time entries (NextService.Lines[i]) *)

\* delayMinutes of routes.ts:371-380 and 276-285
\* a delay that is never negative
DelayMinutesClamped(line) ==
    LET scheduledTime == OrElse(line.ScheduledDepartureTime, "")
        computedTime  == OrElse(line.ComputedDepartureTime, "")
        scheduled == ParseTime(scheduledTime)
        computed  == ParseTime(computedTime)
    IN IF Truthy(scheduledTime) /\ Truthy(computedTime) /\ scheduledTime # computedTime
       THEN IF scheduled.nan \/ computed.nan THEN NaN
            ELSE IF computed.v < scheduled.v THEN Num(0)
            ELSE Num(RoundMinutes(computed.v - scheduled.v))
       ELSE Num(0)

DelayMinutes(line) ==
    LET scheduledTime == OrElse(line.ScheduledDepartureTime, "")
        computedTime  == OrElse(line.ComputedDepartureTime, "")
        scheduled == ParseTime(scheduledTime)
        computed  == ParseTime(computedTime)
    IN IF Truthy(scheduledTime) /\ Truthy(computedTime) /\ scheduledTime # computedTime
       THEN IF scheduled.nan \/ computed.nan THEN NaN
            ELSE Num(RoundMinutes(computed.v - scheduled.v))
       ELSE Num(0)

DELAY_THRESHOLD == 5

\* a delay test that already holds at the threshold
IsDelayedAtThreshold(line) ==
    LET d == DelayMinutes(line)
    IN (~d.nan /\ d.v >= DELAY_THRESHOLD) \/ OrElse(line.DepartureStatus, "") = "L"

\* isDelayed: delayMinutes > 5 || status === "L"
IsDelayed(line) ==
    LET d == DelayMinutes(line)
    IN (~d.nan /\ d.v > DELAY_THRESHOLD) \/ OrElse(line.DepartureStatus, "") = "L"

IsCancelled(line) == OrElse(line.DepartureStatus, "") = "C"

\* an enrichment that takes the departure time of the entry and leaves the
\* schedule's delay, status and platform in place
enrichKeepsPlaceholders(dep, realTime) ==
    [dep EXCEPT !.departureTime = OrElse(realTime.ScheduledDepartureTime, dep.departureTime)]

\* routes.ts:370-392
enrichWithRealTime(dep, realTime) ==
    [dep EXCEPT
        !.departureTime = OrElse(realTime.ScheduledDepartureTime, dep.departureTime),
        !.platform = OrElse(realTime.ScheduledPlatform,
                            OrElse(realTime.ActualPlatform, OrElse(dep.platform, Undefined))),
        !.delay = DelayMinutes(realTime),
        !.status = IF IsCancelled(realTime) THEN "cancelled"
                   ELSE IF IsDelayed(realTime) THEN "delayed" ELSE dep.status]

\* the departure pushed for an entry left in realTimeMap, routes.ts:271-301
RealTimeOnlyDeparture(tripNum, line) ==
    LET lineCode == Trim(OrElse(line.LineCode, ""))
        lineName == OrElse(line.LineName, lineCode)
    IN [tripNumber |-> tripNum,
        departureTime |-> OrElse(line.ScheduledDepartureTime, ""),
        arrivalTime |-> "",
        platform |-> OrElse(line.ScheduledPlatform, OrElse(line.ActualPlatform, Undefined)),
        delay |-> DelayMinutes(line),
        status |-> IF IsCancelled(line) THEN "cancelled"
                   ELSE IF IsDelayed(line) THEN "delayed" ELSE "on_time",
        line |-> OrElse(lineName, "Route " \o lineCode),
        vehicleType |-> IF line.ServiceType = "T" THEN "train"
                        ELSE IF line.ServiceType = "B" THEN "bus"
                        ELSE getVehicleType(lineCode, lineName),
        source |-> "realtime"]

\* a terminal loop that stops at the first station whose name the text holds
TerminalIdxFirstMatch(lineStations, terminalLower) ==
    LET hits == {i \in 1..Len(lineStations) :
                    Includes(terminalLower, ToLowerCase(StationName(lineStations[i])))}
    IN IF hits = {} THEN -1 ELSE (CHOOSE i \in hits : \A j \in hits : i <= j) - 1

\* the index of the last station of the line whose name the terminal text holds
TerminalIdx(lineStations, terminalLower) ==
    LET hits == {i \in 1..Len(lineStations) :
                    Includes(terminalLower, ToLowerCase(StationName(lineStations[i])))}
    IN IF hits = {} THEN -1 ELSE (CHOOSE i \in hits : \A j \in hits : j <= i) - 1

\* a filter of the direction text alone: no line test, no terminal step
TowardDestinationByNameOnly(line, o, d) ==
    Includes(ToLowerCase(Trim(OrElse(line.DirectionName, ""))), ToLowerCase(StationName(d)))

\* a filter whose terminal step does not ask for the origin on the line of
\* the entry
TowardDestinationOriginOptional(line, o, d) ==
    LET dirName == Trim(OrElse(line.DirectionName, ""))
        lineCode == Trim(OrElse(line.LineCode, ""))
        routeLineCode == getLineForRoute(o, d)
        dirLower == ToLowerCase(dirName)
        terminalPart == Trim(AfterSeparator(dirName))
        lineStations == LineStations(lineCode)
        destIdx == SeqIndexOf(lineStations, d)
        terminalIdx == TerminalIdx(lineStations, ToLowerCase(terminalPart))
    IN IF routeLineCode # Undefined /\ lineCode # routeLineCode THEN FALSE
       ELSE IF Includes(dirLower, ToLowerCase(StationName(d))) THEN TRUE
       ELSE IF Includes(dirLower, "union") /\ d = "UN" THEN TRUE
       ELSE IF terminalPart = "" THEN FALSE
       ELSE IF destIdx = -1 \/ terminalIdx = -1 THEN FALSE
       ELSE destIdx <= terminalIdx

\* the callback of rawLines.filter, routes.ts:205-252
TowardDestination(line, o, d) ==
    LET dirName == Trim(OrElse(line.DirectionName, ""))
        lineCode == Trim(OrElse(line.LineCode, ""))
        routeLineCode == getLineForRoute(o, d)
        dirLower == ToLowerCase(dirName)
        terminalPart == Trim(AfterSeparator(dirName))
        lineStations == LineStations(lineCode)
        originIdx == SeqIndexOf(lineStations, o)
        destIdx == SeqIndexOf(lineStations, d)
        terminalIdx == TerminalIdx(lineStations, ToLowerCase(terminalPart))
    IN IF routeLineCode # Undefined /\ lineCode # routeLineCode THEN FALSE
       ELSE IF Includes(dirLower, ToLowerCase(StationName(d))) THEN TRUE
       ELSE IF Includes(dirLower, "union") /\ d = "UN" THEN TRUE
       ELSE IF terminalPart = "" THEN FALSE
       ELSE IF Len(lineStations) = 0 THEN FALSE
       ELSE IF originIdx = -1 \/ destIdx = -1 THEN FALSE
       ELSE IF terminalIdx = -1 THEN FALSE
       ELSE IF originIdx < destIdx /\ destIdx <= terminalIdx THEN TRUE
       ELSE IF originIdx > destIdx /\ destIdx >= terminalIdx THEN TRUE
       ELSE FALSE

-----------------------------------------------------------------------------
(* Schedule parse, routes.ts:136-172 *)

RECURSIVE ConcatAll(_)
ConcatAll(seqs) == IF Len(seqs) = 0 THEN <<>> ELSE Head(seqs) \o ConcatAll(Tail(seqs))

\* service?.Trips?.Trip || [], made an array when it is a single object
TripArray(service) ==
    IF service.Trips.isArray THEN service.Trips.items
    ELSE IF Len(service.Trips.items) = 0 \/ service.Trips.items[1].kind = "null" THEN <<>>
    ELSE <<service.Trips.items[1]>>

\* the trips in journey, service, trip order, each with its service
TripsInOrder(journeys) ==
    ConcatAll([j \in 1..Len(journeys) |->
        ConcatAll([k \in 1..Len(journeys[j].Services) |->
            [t \in 1..Len(TripArray(journeys[j].Services[k])) |->
                [trip |-> TripArray(journeys[j].Services[k])[t],
                 service |-> journeys[j].Services[k]]]])])

\* the object pushed to scheduleDepartures, routes.ts:148-169
ScheduledDeparture(trip, service) ==
    LET lineCode == OrElse(trip.Line, "")
        lineName == OrElse(trip.Display, lineCode)
    IN [tripNumber |-> OrElse(trip.Number, ""),
        departureTime |-> OrElse(service.StartTime, ""),
        arrivalTime |-> OrElse(service.EndTime, ""),
        platform |-> Undefined,
        delay |-> Num(0),
        status |-> "on_time",
        line |-> OrElse(lineName, "Route " \o lineCode),
        vehicleType |-> IF trip.Type = "T" THEN "train"
                        ELSE IF trip.Type = "B" THEN "bus"
                        ELSE getVehicleType(lineCode, lineName),
        source |-> "schedule"]

\* a loop without the tripNumbers set: every trip that is not null is kept
KeepsEveryTrip(trip, tripNumbers) == trip.kind # "null"

\* whether the loop keeps a trip: not null, and its number not yet in tripNumbers
KeepsTrip(trip, tripNumbers) ==
    trip.kind # "null" /\ OrElse(trip.Number, "") \notin tripNumbers

RECURSIVE ParseLoop(_, _, _)
ParseLoop(items, tripNumbers, acc) ==
    IF Len(items) = 0 THEN acc
    ELSE LET trip == Head(items).trip
         IN IF KeepsTrip(trip, tripNumbers)
            THEN ParseLoop(Tail(items), tripNumbers \cup {OrElse(trip.Number, "")},
                           Append(acc, ScheduledDeparture(trip, Head(items).service)))
            ELSE ParseLoop(Tail(items), tripNumbers, acc)

\* journeyData?.SchJourneys || []
SchJourneys(result) == IF result.status = "fulfilled" THEN result.value.SchJourneys ELSE <<>>

ParseSchedule(result) == ParseLoop(TripsInOrder(SchJourneys(result)), {}, <<>>)

-----------------------------------------------------------------------------
(* Real-time lookup and merge, routes.ts:174-302 *)

\* nextServiceData?.NextService?.Lines || [], and [] when that is no array
RawLines(result) ==
    IF result.status = "fulfilled" /\ result.value.isArray THEN result.value.Lines ELSE <<>>

\* the filter callback reads line.DirectionName: a null line throws a TypeError
FilterThrows(rawLines) == \E i \in 1..Len(rawLines) : rawLines[i].kind = "null"

FilterRealTime(rawLines, o, d) == SelectSeq(rawLines, LAMBDA line : TowardDestination(line, o, d))

\* a Map as the sequence of its [key, value] entries in insertion order
MapHas(m, k) == \E i \in 1..Len(m) : m[i].key = k

MapGet(m, k) == m[CHOOSE i \in 1..Len(m) : m[i].key = k].value

\* a lookup in which the first entry of a key wins
MapSetKeepsFirst(m, k, v) ==
    IF MapHas(m, k) THEN m ELSE Append(m, [key |-> k, value |-> v])

MapSet(m, k, v) ==
    IF MapHas(m, k)
    THEN [i \in 1..Len(m) |-> IF m[i].key = k THEN [key |-> k, value |-> v] ELSE m[i]]
    ELSE Append(m, [key |-> k, value |-> v])

\* a merge that forgets realTimeMap.delete: the consumed entry stays in the map
MapDeleteKeepsEntry(m, k) == m

MapDelete(m, k) == SelectSeq(m, LAMBDA e : e.key # k)

RECURSIVE BuildRealTimeMap(_, _)
BuildRealTimeMap(lines, m) ==
    IF Len(lines) = 0 THEN m
    ELSE BuildRealTimeMap(Tail(lines), MapSet(m, Head(lines).TripNumber, Head(lines)))

\* a merge that pairs the departures with the entries of realTimeMap by position
\* instead of by trip number
RECURSIVE MergeLoopByPosition(_, _, _)
MergeLoopByPosition(deps, m, acc) ==
    IF Len(deps) = 0 THEN [merged |-> acc, left |-> m]
    ELSE IF Len(m) > 0
    THEN MergeLoopByPosition(Tail(deps), Tail(m),
                             Append(acc, enrichWithRealTime(Head(deps), Head(m).value)))
    ELSE MergeLoopByPosition(Tail(deps), m, Append(acc, Head(deps)))

\* scheduleDepartures.map(..), routes.ts:261-268: the merged list and the
\* entries left in realTimeMap
RECURSIVE MergeLoop(_, _, _)
MergeLoop(deps, m, acc) ==
    IF Len(deps) = 0 THEN [merged |-> acc, left |-> m]
    ELSE LET dep == Head(deps)
         IN IF MapHas(m, dep.tripNumber)
            THEN MergeLoop(Tail(deps), MapDelete(m, dep.tripNumber),
                           Append(acc, enrichWithRealTime(dep, MapGet(m, dep.tripNumber))))
            ELSE MergeLoop(Tail(deps), m, Append(acc, dep))

\* a merge without step 4: the entries left in realTimeMap are dropped
MergeWithoutAppend(deps, filtered) == MergeLoop(deps, BuildRealTimeMap(filtered, <<>>), <<>>).merged

\* steps 3 and 4: the enriched and passthrough departures, then one departure
\* per entry left in realTimeMap
MergeDepartures(deps, filtered) ==
    LET r == MergeLoop(deps, BuildRealTimeMap(filtered, <<>>), <<>>)
    IN r.merged \o [i \in 1..Len(r.left) |-> RealTimeOnlyDeparture(r.left[i].key, r.left[i].value)]

-----------------------------------------------------------------------------
(* Sort, routes.ts:305-311 *)

\* .filter(d => d.departureTime)
\* a result list cut to its first ten entries, as /api/departures cuts its list
WithDepartureTimeFirstTen(deps) ==
    LET kept == SelectSeq(deps, LAMBDA dep : Truthy(dep.departureTime))
    IN SubSeq(kept, 1, IF Len(kept) < 10 THEN Len(kept) ELSE 10)

WithDepartureTime(deps) == SelectSeq(deps, LAMBDA dep : Truthy(dep.departureTime))

\* the comparator's sign timeA - timeB; NaN when a time does not parse
CompareTimes(a, b) ==
    LET timeA == ParseTime(a.departureTime)
        timeB == ParseTime(b.departureTime)
    IN IF timeA.nan \/ timeB.nan THEN NaN ELSE Num(timeA.v - timeB.v)

RECURSIVE InsertSorted(_, _)
InsertSorted(sorted, x) ==
    IF Len(sorted) = 0 THEN <<x>>
    ELSE IF CompareTimes(sorted[Len(sorted)], x).v <= 0 THEN Append(sorted, x)
    ELSE Append(InsertSorted(SubSeq(sorted, 1, Len(sorted) - 1), x), sorted[Len(sorted)])

RECURSIVE StableSort(_)
StableSort(deps) ==
    IF Len(deps) = 0 THEN <<>>
    ELSE InsertSorted(StableSort(SubSeq(deps, 1, Len(deps) - 1)), deps[Len(deps)])

RemoveAt(seq, i) == SubSeq(seq, 1, i - 1) \o SubSeq(seq, i + 1, Len(seq))

RECURSIVE AllOrders(_)
AllOrders(seq) ==
    IF Len(seq) = 0 THEN {<<>>}
    ELSE UNION {{<<seq[i]>> \o p : p \in AllOrders(RemoveAt(seq, i))} : i \in 1..Len(seq)}

\* The comparator returns NaN when a time does not parse, and sort takes NaN
\* for +0: such an entry is "equal" to every other one. The comparator is then
\* consistent only if the times that do parse are all equal.
ConsistentComparator(deps) ==
    \/ \A i \in 1..Len(deps) : ~ParseTime(deps[i].departureTime).nan
    \/ \A i, j \in 1..Len(deps) : CompareTimes(deps[i], deps[j]).v = 0

\* Array.prototype.sort is stable when the comparator is consistent; otherwise
\* the order is implementation-defined and the result is some permutation.
SortResults(deps) ==
    IF ConsistentComparator(deps) THEN {StableSort(deps)} ELSE AllOrders(deps)

-----------------------------------------------------------------------------
(* Alerts, routes.ts:313-357 *)

\* alertsData?.Messages || alertsData?.ServiceAlerts?.Messages || [], and []
\* when that is no array
AlertMessages(result) ==
    IF result.status = "fulfilled" /\ result.value.isArray THEN result.value.Messages ELSE <<>>

\* line.LineCode || line.Code || line
LineRef(e) ==
    IF e.kind = "string" THEN e.str
    ELSE OrElse(e.LineCode, OrElse(e.Code, "[object Object]"))

\* msg.AssociatedLines?.map(..) || msg.Lines?.map(..) || msg.Routes || []
\* (an empty array is truthy: a present AssociatedLines hides Lines and Routes)
AffectedLines(msg) ==
    IF msg.AssociatedLines.present
    THEN [i \in 1..Len(msg.AssociatedLines.items) |-> LineRef(msg.AssociatedLines.items[i])]
    ELSE IF msg.Lines.present
    THEN [i \in 1..Len(msg.Lines.items) |-> LineRef(msg.Lines.items[i])]
    ELSE IF msg.Routes.present THEN msg.Routes.items
    ELSE <<>>

\* reading a property of null throws a TypeError inside the inner try
MessageThrows(msg) ==
    \/ msg.kind = "null"
    \/ /\ msg.kind # "null"
       /\ LET list == IF msg.AssociatedLines.present THEN msg.AssociatedLines.items
                      ELSE IF msg.Lines.present THEN msg.Lines.items ELSE <<>>
          IN \E i \in 1..Len(list) : list[i].kind = "null"

AlertsThrow(messages) == \E i \in 1..Len(messages) : MessageThrows(messages[i])

Severity(msg) ==
    IF \/ Includes(ToLowerCase(OrElse(msg.Category, "")), "disruption")
       \/ Includes(ToLowerCase(OrElse(msg.SubCategory, "")), "suspension")
       \/ msg.Priority = "High"
    THEN "severe"
    ELSE IF msg.Priority = "Medium" \/ Includes(ToLowerCase(OrElse(msg.SubCategory, "")), "delay")
    THEN "warning"
    ELSE "info"

\* the object of allAlerts for one message, routes.ts:321-344
ParseAlert(msg) ==
    [id |-> OrElse(msg.Code, OrElse(msg.MessageId, OrElse(msg.Id, "Date.now()"))),
     title |-> OrElse(msg.SubjectEnglish, OrElse(msg.Subject, OrElse(msg.Title, "Service Alert"))),
     description |-> OrElse(msg.BodyEnglish, OrElse(msg.Body, OrElse(msg.Description, ""))),
     severity |-> Severity(msg),
     affectedRoutes |-> AffectedLines(msg)]

\* a filter that does not look for the destination code
IsRelevantAlertNoDestination(alert, o, d) ==
    \/ Len(alert.affectedRoutes) = 0
    \/ (getLineForRoute(o, d) # Undefined /\ SeqIncludes(alert.affectedRoutes, getLineForRoute(o, d)))
    \/ SeqIncludes(alert.affectedRoutes, o)

\* the callback of allAlerts.filter, routes.ts:347-354
IsRelevantAlert(alert, o, d) ==
    \/ Len(alert.affectedRoutes) = 0
    \/ (getLineForRoute(o, d) # Undefined /\ SeqIncludes(alert.affectedRoutes, getLineForRoute(o, d)))
    \/ SeqIncludes(alert.affectedRoutes, o)
    \/ SeqIncludes(alert.affectedRoutes, d)

\* relevantAlerts after the inner try/catch: [] when the fetch was rejected or
\* the parse threw
RelevantAlerts(result, o, d) ==
    IF result.status # "fulfilled" \/ AlertsThrow(AlertMessages(result)) THEN <<>>
    ELSE SelectSeq([i \in 1..Len(AlertMessages(result)) |-> ParseAlert(AlertMessages(result)[i])],
                   LAMBDA alert : IsRelevantAlert(alert, o, d))

-----------------------------------------------------------------------------
(* The simple endpoints: /api/stations, /api/departures, /api/alerts *)

STATIONS_CAP == 200

DEPARTURES_CAP == 10

\* seq.slice(0, n)
Slice(seq, n) == SubSeq(seq, 1, IF Len(seq) < n THEN Len(seq) ELSE n)

IsTrainStop(s) ==
    LET locationType == OrElse(s.LocationType, "")
    IN \/ Includes(locationType, "GO") \/ Includes(locationType, "Train")
       \/ Includes(locationType, "Rail") \/ Includes(locationType, "Station")

\* routes.ts:65-84
StationsOf(stops) ==
    LET trainStops == SelectSeq(stops, IsTrainStop)
        allStops == IF Len(trainStops) > 0 THEN trainStops ELSE Slice(stops, STATIONS_CAP)
    IN [i \in 1..Len(allStops) |->
          [code |-> OrElse(allStops[i].LocationCode, OrElse(allStops[i].StopCode, allStops[i].Code)),
           name |-> OrElse(allStops[i].LocationName, OrElse(allStops[i].StopName, allStops[i].Name)),
           locationName |-> allStops[i].LocationName,
           locationType |-> allStops[i].LocationType]]

\* the object of routes.ts:407-436 for one line of /api/departures
StopDeparture(line) ==
    LET lineCode == OrElse(line.LineCode, "")
        lineName == OrElse(line.LineName, "")
    IN [tripNumber |-> OrElse(line.TripNumber, "N/A"),
        departureTime |-> OrElse(line.ScheduledDepartureTime, ""),
        arrivalTime |-> "",
        platform |-> OrElse(line.ScheduledPlatform, OrElse(line.ActualPlatform, Undefined)),
        delay |-> DelayMinutes(line),
        status |-> IF IsCancelled(line) THEN "cancelled"
                   ELSE IF IsDelayed(line) THEN "delayed" ELSE "on_time",
        line |-> OrElse(lineName, lineCode),
        vehicleType |-> getVehicleType(lineCode, lineName)]

-----------------------------------------------------------------------------
(* Upstream client and responses *)

Pending == [status |-> "pending"]

Fulfilled(v) == [status |-> "fulfilled", value |-> v]

Rejected(reason) == [status |-> "rejected", reason |-> reason]

\* the outcomes of fetchMetrolinx for the bodies in values: a non-2xx status
\* and an undecodable body both throw
fetchMetrolinx(values) ==
    {Rejected("Metrolinx API error"), Rejected("Invalid JSON response from Metrolinx API")}
        \cup {Fulfilled(v) : v \in values}

\* res.status(code).json(body)
Json(code, err, deps, alerts, stations) ==
    [status |-> code, error |-> err, departures |-> deps, alerts |-> alerts, stations |-> stations]

NoResponse == Json(0, Undefined, <<>>, <<>>, <<>>)

KeyMissing == Json(500, "API key not configured", <<>>, <<>>, <<>>)

-----------------------------------------------------------------------------
(* Upstream bodies the model draws from *)

\* the feed records (services plus next-service lines) of one request
MaxFeedEntries == 3

\* the trips of one schedule response, for the schedule parse
MaxSchedTrips == 3

\* the messages of one alerts response, and the codes one message names
MaxMessages == 2

MaxAffected == 2

SeqsUpTo(S, n) == UNION {[1..k -> S] : k \in 0..n}

Trip(number, line, display, type) ==
    [kind |-> "object", Number |-> number, Line |-> line, Display |-> display, Type |-> type]

NullTrip == [kind |-> "null", Number |-> Undefined, Line |-> Undefined,
             Display |-> Undefined, Type |-> Undefined]

Service(start, end, isArray, trips) ==
    [StartTime |-> start, EndTime |-> end, Trips |-> [isArray |-> isArray, items |-> trips]]

\* one service per trip, its Trip a single object
FlatServices ==
    {Service(t, "2024-06-01 09:30", FALSE, <<Trip(n, "LW", "Lakeshore West", "T")>>) :
        n \in {"T100", "T200"}, t \in {"2024-06-01 08:15", "2024-06-01 07:50", "soon", ""}}

JourneyBodies(n) ==
    {[SchJourneys |-> <<[Services |-> ss]>>] : ss \in SeqsUpTo(FlatServices, n)}

RtLine(trip, dir, sched, comp, status, splat, aplat) ==
    [kind |-> "object", TripNumber |-> trip, LineCode |-> "LW", LineName |-> "Lakeshore West",
     ServiceType |-> "T", DirectionName |-> dir, ScheduledDepartureTime |-> sched,
     ComputedDepartureTime |-> comp, DepartureStatus |-> status,
     ScheduledPlatform |-> splat, ActualPlatform |-> aplat]

NullLine ==
    [kind |-> "null", TripNumber |-> Undefined, LineCode |-> Undefined, LineName |-> Undefined,
     ServiceType |-> Undefined, DirectionName |-> Undefined, ScheduledDepartureTime |-> Undefined,
     ComputedDepartureTime |-> Undefined, DepartureStatus |-> Undefined,
     ScheduledPlatform |-> Undefined, ActualPlatform |-> Undefined]

\* towards Union seven minutes late, towards Union cancelled, towards Aldershot
\* on time; and a null record
RtLines ==
    UNION {{RtLine(n, "LW - Union Station", "2024-06-01 08:15", "2024-06-01 08:22", "", "5", Undefined),
            RtLine(n, "LW - Union Station", "2024-06-01 07:50", Undefined, "C", Undefined, Undefined),
            RtLine(n, "LW - Aldershot GO", "2024-06-01 08:15", "2024-06-01 08:15", "", Undefined, "3")} :
           n \in {"T100", "T300"}} \cup {NullLine}

NextServiceBodies(n) ==
    {[Lines |-> ls, isArray |-> TRUE] : ls \in SeqsUpTo(RtLines, n)}
        \cup {[Lines |-> <<>>, isArray |-> FALSE]}

Present(items) == [present |-> TRUE, items |-> items]

Absent == [present |-> FALSE, items |-> <<>>]

Msg(code, assoc, lines, routes, priority) ==
    [kind |-> "object", Code |-> code, MessageId |-> Undefined, Id |-> Undefined,
     SubjectEnglish |-> "Notice " \o code, Subject |-> Undefined, Title |-> Undefined,
     BodyEnglish |-> Undefined, Body |-> Undefined, Description |-> Undefined,
     Category |-> Undefined, SubCategory |-> Undefined, Priority |-> priority,
     AssociatedLines |-> assoc, Lines |-> lines, Routes |-> routes]

NullMsg ==
    [kind |-> "null", Code |-> Undefined, MessageId |-> Undefined, Id |-> Undefined,
     SubjectEnglish |-> Undefined, Subject |-> Undefined, Title |-> Undefined,
     BodyEnglish |-> Undefined, Body |-> Undefined, Description |-> Undefined,
     Category |-> Undefined, SubCategory |-> Undefined, Priority |-> Undefined,
     AssociatedLines |-> Absent, Lines |-> Absent, Routes |-> Absent]

StrRef(code) == [kind |-> "string", str |-> code, LineCode |-> Undefined, Code |-> Undefined]

ObjRef(code) == [kind |-> "object", str |-> Undefined, LineCode |-> code, Code |-> Undefined]

NullRef == [kind |-> "null", str |-> Undefined, LineCode |-> Undefined, Code |-> Undefined]

\* the alerts bodies of the aggregation runs: a system-wide alert with an alert
\* of another line, and an alert of the line with a null record
FewAlertBodies ==
    {[Messages |-> <<Msg("A1", Absent, Absent, Absent, "High"),
                     Msg("A2", Absent, Absent, Present(<<"GT">>), Undefined)>>, isArray |-> TRUE],
     [Messages |-> <<Msg("A3", Present(<<ObjRef("LW")>>), Absent, Absent, "Medium"), NullMsg>>,
      isArray |-> TRUE]}

\* origin and destination of the aggregation runs: Burlington to Union, and
\* requests that lack a parameter
JourneyQueries == {<<"BU", "UN">>, <<Undefined, "UN">>, <<"BU", "">>}

Stop(code, name, type) ==
    [LocationCode |-> code, StopCode |-> Undefined, Code |-> Undefined, LocationName |-> name,
     StopName |-> Undefined, Name |-> Undefined, LocationType |-> type]

StopsBodies ==
    {[stops |-> <<>>],
     [stops |-> <<Stop("UN", "Union Station", "Train Station"), Stop("00123", "Main St", "Bus Stop")>>],
     [stops |-> <<Stop("00123", "Main St", "Bus Stop")>>]}

StopLinesBodies ==
    {[Lines |-> ls, isArray |-> TRUE] : ls \in SeqsUpTo(RtLines, 1)}
        \cup {[Lines |-> <<>>, isArray |-> FALSE]}

StopQueries == {"BU", Undefined}

-----------------------------------------------------------------------------
(* Client: the saved routes in AsyncStorage, src/client/lib/storage.ts *)

\* the calls of saveRoute and deleteRoute made in one run
MaxStorageOps == 3

\* the async invocations that can be in flight at once: handleSave of the
\* add-route screen and the Delete button of a route card
StorageCallers == {"c1", "c2"}

\* the stations the user picks from
PickedStations == {"BU", "UN", "OA"}

\* the SavedRoute built by handleSave, AddRouteScreen.tsx:126-133
NewRoute(o, d, now) ==
    [id |-> o \o "-" \o d \o "-" \o ToString(now), originCode |-> o, destinationCode |-> d,
     createdAt |-> now]

\* AsyncStorage holds strings: getItem gives null for a key never set
NoItem == [data |-> "null", routes |-> <<>>]

\* JSON.stringify(routes): the text of the array
JSONStringify(routes) == [data |-> "text", routes |-> routes]

\* data ? JSON.parse(data) : [], storage.ts:24
JSONParse(item) == IF item.data = "null" THEN <<>> ELSE item.routes

\* getSavedRoutes, storage.ts:21-28: [] when getItem throws
getSavedRoutes(item, ok) == IF ok THEN JSONParse(item) ELSE <<>>

\* routes.some(..), storage.ts:33-37: the route or its reverse is in the list
RouteExists(routes, route) ==
    \E i \in 1..Len(routes) :
        \/ routes[i].originCode = route.originCode /\ routes[i].destinationCode = route.destinationCode
        \/ routes[i].originCode = route.destinationCode /\ routes[i].destinationCode = route.originCode

NoRoute == [id |-> Undefined, originCode |-> Undefined, destinationCode |-> Undefined, createdAt |-> 0]

IdleCall == [op |-> "none", pc |-> "idle", route |-> NoRoute, routeId |-> Undefined,
             routes |-> <<>>, result |-> FALSE]

ClientInit ==
    /\ routesItem = NoItem
    /\ storageCalls = [c \in StorageCallers |-> IdleCall]
    /\ storageLog = [issued |-> 0, saved |-> {}, deleteCalled |-> {}]

\* handleSave calls saveRoute(newRoute), AddRouteScreen.tsx:112-135; the call
\* starts with getItem (storage.ts:32)
SaveRouteCall(c, o, d) ==
    /\ storageCalls[c].pc \in {"idle", "done"}
    /\ storageLog.issued < MaxStorageOps
    /\ o # d
    /\ storageCalls' = [storageCalls EXCEPT ![c] =
          [IdleCall EXCEPT !.op = "saveRoute", !.pc = "getItem",
                           !.route = NewRoute(o, d, storageLog.issued + 1)]]
    /\ storageLog' = [storageLog EXCEPT !.issued = @ + 1]
    /\ UNCHANGED <<routesItem, serverVars>>

\* the Delete button of a listed route calls deleteRoute(route.id),
\* ProfileScreen.tsx:494; the call starts with getItem (storage.ts:51)
DeleteRouteCall(c, i) ==
    /\ storageCalls[c].pc \in {"idle", "done"}
    /\ storageLog.issued < MaxStorageOps
    /\ i \in 1..Len(JSONParse(routesItem))
    /\ storageCalls' = [storageCalls EXCEPT ![c] =
          [IdleCall EXCEPT !.op = "deleteRoute", !.pc = "getItem",
                           !.routeId = JSONParse(routesItem)[i].id]]
    /\ storageLog' = [storageLog EXCEPT !.issued = @ + 1,
                                        !.deleteCalled = @ \cup {JSONParse(routesItem)[i].id}]
    /\ UNCHANGED <<routesItem, serverVars>>

\* await getSavedRoutes() resumes the call: saveRoute returns false when the
\* route exists, else pushes it and calls setItem (storage.ts:32-42);
\* deleteRoute filters and calls setItem (51-53)
GetItemSettles(c, ok) ==
    /\ storageCalls[c].pc = "getItem"
    /\ LET call == storageCalls[c]
           routes == getSavedRoutes(routesItem, ok)
       IN storageCalls' = [storageCalls EXCEPT ![c] =
             IF call.op = "saveRoute"
             THEN IF RouteExists(routes, call.route)
                  THEN [call EXCEPT !.routes = routes, !.pc = "done", !.result = FALSE]
                  ELSE [call EXCEPT !.routes = Append(routes, call.route), !.pc = "setItem"]
             ELSE [call EXCEPT !.routes = SelectSeq(routes, LAMBDA r : r.id # call.routeId),
                               !.pc = "setItem"]]
    /\ UNCHANGED <<routesItem, storageLog, serverVars>>

\* await AsyncStorage.setItem(..) resumes the call: the item is replaced by
\* the list of the call and saveRoute returns true; when setItem throws the
\* item stays and saveRoute returns false (storage.ts:42-46, 53-56)
SetItemSettles(c, ok) ==
    /\ storageCalls[c].pc = "setItem"
    /\ LET call == storageCalls[c]
       IN /\ routesItem' = IF ok THEN JSONStringify(call.routes) ELSE routesItem
          /\ storageCalls' = [storageCalls EXCEPT ![c] =
                [call EXCEPT !.pc = "done", !.result = (ok /\ call.op = "saveRoute")]]
          /\ storageLog' = IF ok /\ call.op = "saveRoute"
                           THEN [storageLog EXCEPT !.saved = @ \cup {call.route.id}]
                           ELSE storageLog
    /\ UNCHANGED serverVars

-----------------------------------------------------------------------------
(* State *)

\* the locals of a handler invocation that has not started
IdlePeer ==
    [pc |-> "idle", origin |-> Undefined, destination |-> Undefined,
     journeyResult |-> Pending, nextServiceResult |-> Pending, alertsResult |-> Pending,
     scheduleDepartures |-> <<>>, filteredRealTime |-> <<>>, mergedDepartures |-> <<>>,
     sortedDepartures |-> <<>>, response |-> NoResponse]

Init ==
    /\ apiKey \in BOOLEAN
    /\ endpoint = "none"
    /\ pc = "idle"
    /\ origin = Undefined
    /\ destination = Undefined
    /\ stop = Undefined
    /\ journeyResult = Pending
    /\ nextServiceResult = Pending
    /\ alertsResult = Pending
    /\ otherResult = Pending
    /\ scheduleDepartures = <<>>
    /\ filteredRealTime = <<>>
    /\ mergedDepartures = <<>>
    /\ sortedDepartures = <<>>
    /\ response = NoResponse
    /\ upstreamCalls = <<>>
    /\ peer = IdlePeer
    /\ ClientInit

\* the handler answers and returns
Respond(r) == response' = r /\ pc' = "done"

-----------------------------------------------------------------------------
(* GET /api/journey, routes.ts:94-368 *)

\* routes.ts:95-130: the guards, then both fetches are started
JourneyRequest(o, d) ==
    /\ pc = "idle"
    /\ endpoint' = "journey"
    /\ origin' = o
    /\ destination' = d
    /\ IF ~apiKey
       THEN Respond(KeyMissing) /\ UNCHANGED upstreamCalls
       ELSE IF ~Truthy(o) \/ ~Truthy(d)
       THEN Respond(Json(400, "Origin and destination required", <<>>, <<>>, <<>>))
            /\ UNCHANGED upstreamCalls
       ELSE /\ pc' = "awaitFeeds"
            /\ upstreamCalls' = upstreamCalls \o <<"Schedule/Journey", "Stop/NextService">>
            /\ UNCHANGED response
    /\ UNCHANGED <<apiKey, peer, clientVars, stop, journeyResult, nextServiceResult, alertsResult, otherResult,
                   scheduleDepartures, filteredRealTime, mergedDepartures, sortedDepartures>>

\* the number of feed records of a settled result
FeedEntries(result) ==
    IF result.status # "fulfilled" THEN 0
    ELSE IF "SchJourneys" \in DOMAIN result.value
    THEN Len(TripsInOrder(result.value.SchJourneys))
    ELSE Len(result.value.Lines)

\* a handler that issues the Schedule/Journey request once more after a failure
JourneySettlesRetrying(r) ==
    /\ pc = "awaitFeeds"
    /\ journeyResult.status = "pending"
    /\ IF r.status = "rejected" /\ Len(upstreamCalls) < 3
       THEN /\ upstreamCalls' = Append(upstreamCalls, "Schedule/Journey")
            /\ UNCHANGED journeyResult
       ELSE /\ journeyResult' = r
            /\ UNCHANGED upstreamCalls
    /\ UNCHANGED <<apiKey, peer, clientVars, endpoint, pc, origin, destination, stop, nextServiceResult,
                   alertsResult, otherResult, scheduleDepartures, filteredRealTime,
                   mergedDepartures, sortedDepartures, response>>

\* the Schedule/Journey fetch settles
JourneySettles(r) ==
    /\ pc = "awaitFeeds"
    /\ journeyResult.status = "pending"
    /\ journeyResult' = r
    /\ UNCHANGED <<apiKey, peer, clientVars, endpoint, pc, origin, destination, stop, nextServiceResult,
                   alertsResult, otherResult, scheduleDepartures, filteredRealTime,
                   mergedDepartures, sortedDepartures, response, upstreamCalls>>

\* a handler that answers as soon as the Stop/NextService fetch has settled
NextServiceSettlesAndResponds(r) ==
    /\ pc = "awaitFeeds"
    /\ nextServiceResult.status = "pending"
    /\ nextServiceResult' = r
    /\ Respond(Json(200, Undefined, <<>>, <<>>, <<>>))
    /\ UNCHANGED <<apiKey, peer, clientVars, endpoint, origin, destination, stop, journeyResult,
                   alertsResult, otherResult, scheduleDepartures, filteredRealTime,
                   mergedDepartures, sortedDepartures, upstreamCalls>>

\* the Stop/NextService fetch settles
NextServiceSettles(r) ==
    /\ pc = "awaitFeeds"
    /\ nextServiceResult.status = "pending"
    /\ nextServiceResult' = r
    /\ UNCHANGED <<apiKey, peer, clientVars, endpoint, pc, origin, destination, stop, journeyResult,
                   alertsResult, otherResult, scheduleDepartures, filteredRealTime,
                   mergedDepartures, sortedDepartures, response, upstreamCalls>>

\* Promise.all in place of Promise.allSettled: the await throws as soon as one
\* of the two fetches is rejected
PromiseAllThrows(jr, nr) == jr.status = "rejected" \/ nr.status = "rejected"

\* await Promise.allSettled([..]) never throws: a rejected fetch is a settled
\* result like a fulfilled one
AwaitFeedsThrows(jr, nr) == FALSE

\* routes.ts:132-317: Promise.allSettled has resolved; parse, filter, merge and
\* sort, then start the alerts fetch. An exception ends in the outer catch.
Aggregate ==
    /\ pc = "awaitFeeds"
    /\ journeyResult.status # "pending"
    /\ nextServiceResult.status # "pending"
    /\ scheduleDepartures' = ParseSchedule(journeyResult)
    /\ IF AwaitFeedsThrows(journeyResult, nextServiceResult)
          \/ FilterThrows(RawLines(nextServiceResult))
       THEN /\ Respond(Json(500, "Failed to fetch journey data", <<>>, <<>>, <<>>))
            /\ UNCHANGED <<filteredRealTime, mergedDepartures, sortedDepartures, upstreamCalls>>
       ELSE /\ filteredRealTime' = FilterRealTime(RawLines(nextServiceResult), origin, destination)
            /\ mergedDepartures' = MergeDepartures(scheduleDepartures', filteredRealTime')
            /\ sortedDepartures' \in SortResults(WithDepartureTime(mergedDepartures'))
            /\ upstreamCalls' = Append(upstreamCalls, "ServiceUpdate/ServiceAlert")
            /\ pc' = "awaitAlerts"
            /\ UNCHANGED response
    /\ UNCHANGED <<apiKey, peer, clientVars, endpoint, origin, destination, stop, journeyResult,
                   nextServiceResult, alertsResult, otherResult>>

\* the alerts fetch without the inner try/catch: its failure reaches the outer catch
JourneyResponseNoInnerCatch(deps, r, o, d) ==
    IF r.status # "fulfilled" \/ AlertsThrow(AlertMessages(r))
    THEN Json(500, "Failed to fetch journey data", <<>>, <<>>, <<>>)
    ELSE Json(200, Undefined, deps, RelevantAlerts(r, o, d), <<>>)

\* routes.ts:314-363: the body sent once the alerts fetch has settled; the inner
\* try/catch keeps an alerts failure away from the outer catch
JourneyResponse(deps, r, o, d) == Json(200, Undefined, deps, RelevantAlerts(r, o, d), <<>>)

\* routes.ts:317-363: the alerts fetch settles inside the inner try, then the
\* response is sent
AlertsSettles(r) ==
    /\ pc = "awaitAlerts"
    /\ alertsResult' = r
    /\ Respond(JourneyResponse(sortedDepartures, r, origin, destination))
    /\ UNCHANGED <<apiKey, peer, clientVars, endpoint, origin, destination, stop, journeyResult,
                   nextServiceResult, otherResult, scheduleDepartures, filteredRealTime,
                   mergedDepartures, sortedDepartures, upstreamCalls>>

-----------------------------------------------------------------------------
(* GET /api/stations, /api/departures, /api/alerts *)

\* what a request of a simple endpoint leaves alone
SimpleFrame ==
    UNCHANGED <<apiKey, peer, clientVars, origin, destination, journeyResult, nextServiceResult, alertsResult,
                scheduleDepartures, filteredRealTime, mergedDepartures, sortedDepartures>>

\* routes.ts:58-64
StationsRequest ==
    /\ pc = "idle"
    /\ endpoint' = "stations"
    /\ IF ~apiKey
       THEN Respond(KeyMissing) /\ UNCHANGED upstreamCalls
       ELSE /\ pc' = "awaitOther"
            /\ upstreamCalls' = Append(upstreamCalls, "Stop/All")
            /\ UNCHANGED response
    /\ UNCHANGED <<stop, otherResult>>
    /\ SimpleFrame

\* routes.ts:65-91
StationsSettles(r) ==
    /\ pc = "awaitOther"
    /\ endpoint = "stations"
    /\ otherResult' = r
    /\ IF r.status = "fulfilled"
       THEN Respond(Json(200, Undefined, <<>>, <<>>, StationsOf(r.value.stops)))
       ELSE Respond(Json(500, "Failed to fetch stations", <<>>, <<>>, <<>>))
    /\ UNCHANGED <<endpoint, stop, upstreamCalls>>
    /\ SimpleFrame

\* routes.ts:394-404
DeparturesRequest(s) ==
    /\ pc = "idle"
    /\ endpoint' = "departures"
    /\ stop' = s
    /\ IF ~apiKey
       THEN Respond(KeyMissing) /\ UNCHANGED upstreamCalls
       ELSE IF ~Truthy(s)
       THEN Respond(Json(400, "Stop code required", <<>>, <<>>, <<>>)) /\ UNCHANGED upstreamCalls
       ELSE /\ pc' = "awaitOther"
            /\ upstreamCalls' = Append(upstreamCalls, "Stop/NextService")
            /\ UNCHANGED response
    /\ UNCHANGED otherResult
    /\ SimpleFrame

\* routes.ts:404-445: lines.map throws on a Lines that is no array and on a
\* null line
DeparturesSettles(r) ==
    /\ pc = "awaitOther"
    /\ endpoint = "departures"
    /\ otherResult' = r
    /\ IF r.status = "fulfilled" /\ r.value.isArray /\ ~FilterThrows(r.value.Lines)
       THEN Respond(Json(200, Undefined,
                         Slice([i \in 1..Len(r.value.Lines) |-> StopDeparture(r.value.Lines[i])],
                               DEPARTURES_CAP),
                         <<>>, <<>>))
       ELSE Respond(Json(500, "Failed to fetch departures", <<>>, <<>>, <<>>))
    /\ UNCHANGED <<endpoint, stop, upstreamCalls>>
    /\ SimpleFrame

\* /api/alerts without its credential guard
AlertsRequestUnguarded ==
    /\ pc = "idle"
    /\ endpoint' = "alerts"
    /\ pc' = "awaitOther"
    /\ upstreamCalls' = Append(upstreamCalls, "ServiceUpdate/ServiceAlert")
    /\ UNCHANGED <<response, stop, otherResult>>
    /\ SimpleFrame

\* routes.ts:448-454
AlertsRequest ==
    /\ pc = "idle"
    /\ endpoint' = "alerts"
    /\ IF ~apiKey
       THEN Respond(KeyMissing) /\ UNCHANGED upstreamCalls
       ELSE /\ pc' = "awaitOther"
            /\ upstreamCalls' = Append(upstreamCalls, "ServiceUpdate/ServiceAlert")
            /\ UNCHANGED response
    /\ UNCHANGED <<stop, otherResult>>
    /\ SimpleFrame

\* routes.ts:454-489: every parsed alert, or none when the fetch or the parse
\* threw
AllAlertsSettles(r) ==
    /\ pc = "awaitOther"
    /\ endpoint = "alerts"
    /\ otherResult' = r
    /\ IF r.status = "fulfilled" /\ ~AlertsThrow(AlertMessages(r))
       THEN Respond(Json(200, Undefined, <<>>,
                         [i \in 1..Len(AlertMessages(r)) |-> ParseAlert(AlertMessages(r)[i])], <<>>))
       ELSE Respond(Json(200, Undefined, <<>>, <<>>, <<>>))
    /\ UNCHANGED <<endpoint, stop, upstreamCalls>>
    /\ SimpleFrame

\* the outcomes of each feed's fetch, by the number of records left to the request
JourneyOutcomes == [n \in 0..MaxFeedEntries |-> fetchMetrolinx(JourneyBodies(n))]

NextServiceOutcomes == [n \in 0..MaxFeedEntries |-> fetchMetrolinx(NextServiceBodies(n))]

-----------------------------------------------------------------------------
(* The aggregation runs: every endpoint, feeds of up to MaxFeedEntries records *)

Next ==
    \/ \E q \in JourneyQueries : JourneyRequest(q[1], q[2])
    \/ \E r \in JourneyOutcomes[MaxFeedEntries - FeedEntries(nextServiceResult)] :
          JourneySettles(r)
    \/ \E r \in NextServiceOutcomes[MaxFeedEntries - FeedEntries(journeyResult)] :
          NextServiceSettles(r)
    \/ Aggregate
    \/ \E r \in fetchMetrolinx(FewAlertBodies) : AlertsSettles(r)
    \/ StationsRequest
    \/ \E r \in fetchMetrolinx(StopsBodies) : StationsSettles(r)
    \/ \E s \in StopQueries : DeparturesRequest(s)
    \/ \E r \in fetchMetrolinx(StopLinesBodies) : DeparturesSettles(r)
    \/ AlertsRequest
    \/ \E r \in fetchMetrolinx(FewAlertBodies) : AllAlertsSettles(r)

Spec == Init /\ [][Next]_vars

\* The continuation of the handler runs once both fetches have settled (the
\* event loop resumes it). Nothing makes a fetch settle: fetchMetrolinx passes
\* no timeout and no abort signal, so the settle steps carry no fairness.
SpecLive == Init /\ [][Next]_vars /\ WF_vars(Aggregate)

-----------------------------------------------------------------------------
(* The schedule parse over nested schedule responses: /api/journey from the
   state where both fetches have settled, the next-service fetch rejected. *)

\* a train trip, the same number run as a bus, another train trip, a trip
\* without a number, and a null record
SchedTrips ==
    {Trip("T100", "LW", "Lakeshore West", "T"),
     Trip("T100", "21", "Route 21 Bus", Undefined),
     Trip("T200", "LW", "Lakeshore West", "T"),
     Trip(Undefined, "LW", "Lakeshore West", "T"),
     NullTrip}

SchedStarts == {"2024-06-01 08:15", "2024-06-01 07:50"}

SchedEnd(start) == IF start = "2024-06-01 08:15" THEN "2024-06-01 09:30" ELSE "2024-06-01 09:05"

\* a trip and where it goes: into the current service, a new service of the
\* current journey, or a new journey
FirstItems == {[trip |-> t, cut |-> "journey", start |-> st] : t \in SchedTrips, st \in SchedStarts}

LaterItems ==
    {[trip |-> t, cut |-> "trip", start |-> ""] : t \in SchedTrips}
        \cup {[trip |-> t, cut |-> "service", start |-> st] : t \in SchedTrips, st \in SchedStarts}
        \cup {[trip |-> t, cut |-> "journey", start |-> "2024-06-01 08:15"] : t \in SchedTrips}

\* the journeys as lists of [start, trips], built item by item
RECURSIVE NestItems(_, _)
NestItems(items, acc) ==
    IF Len(items) = 0 THEN acc
    ELSE LET it == Head(items)
             nj == Len(acc)
             ns == IF nj = 0 THEN 0 ELSE Len(acc[nj])
             fresh == [start |-> it.start, trips |-> <<it.trip>>]
         IN IF it.cut = "journey" \/ nj = 0
            THEN NestItems(Tail(items), Append(acc, <<fresh>>))
            ELSE IF it.cut = "service"
            THEN NestItems(Tail(items), [acc EXCEPT ![nj] = Append(@, fresh)])
            ELSE NestItems(Tail(items), [acc EXCEPT ![nj][ns].trips = Append(@, it.trip)])

\* the upstream body: a service with one trip carries it as a single object
SchedBody(items) ==
    LET js == NestItems(items, <<>>)
    IN [SchJourneys |->
          [j \in 1..Len(js) |->
              [Services |->
                  [k \in 1..Len(js[j]) |->
                      Service(js[j][k].start, SchedEnd(js[j][k].start),
                              Len(js[j][k].trips) # 1, js[j][k].trips)]]]]

InitSchedule ==
    /\ apiKey = TRUE
    /\ endpoint = "journey"
    /\ pc = "awaitFeeds"
    /\ origin = "BU"
    /\ destination = "UN"
    /\ stop = Undefined
    /\ \E k \in 0..(MaxSchedTrips - 1) : \E f \in FirstItems : \E rest \in [1..k -> LaterItems] :
          journeyResult = Fulfilled(SchedBody(<<f>> \o rest))
    /\ nextServiceResult = Rejected("Metrolinx API error")
    /\ alertsResult = Pending
    /\ otherResult = Pending
    /\ scheduleDepartures = <<>>
    /\ filteredRealTime = <<>>
    /\ mergedDepartures = <<>>
    /\ sortedDepartures = <<>>
    /\ response = NoResponse
    /\ upstreamCalls = <<"Schedule/Journey", "Stop/NextService">>
    /\ peer = IdlePeer
    /\ ClientInit

NextSchedule == Aggregate

SpecSchedule == InitSchedule /\ [][NextSchedule]_vars

-----------------------------------------------------------------------------
(* The alert filter over the affected lists of the messages: /api/journey from
   the state where it awaits the alerts fetch, both feeds rejected. *)

AffectedCodes == {"LW", "BU", "UN", "GT"}

\* a message for every Routes list of up to MaxAffected codes, and messages
\* that name their lines in AssociatedLines or Lines
ScopedMessages ==
    {Msg("A1", Absent, Absent, Present(codes), Undefined) : codes \in SeqsUpTo(AffectedCodes, MaxAffected)}
        \cup {Msg("A1", Present(<<ObjRef("GT")>>), Absent, Present(<<"LW">>), "High"),
              Msg("A1", Absent, Present(<<StrRef("UN")>>), Absent, Undefined)}

\* the messages that follow the first: no list at all, an empty AssociatedLines
\* in front of a Routes list, a line as an object, a line in Routes, null
OtherMessages ==
    {Msg("A2", Absent, Absent, Absent, "Medium"),
     Msg("A2", Present(<<>>), Absent, Present(<<"GT">>), Undefined),
     Msg("A2", Present(<<ObjRef("LW")>>), Absent, Absent, Undefined),
     Msg("A2", Absent, Absent, Present(<<"GT">>), Undefined),
     NullMsg}

\* Burlington to Union and Kitchener to Brampton, each on one line, and
\* Burlington to Oshawa, on no common line
AlertQueries == {<<"BU", "UN">>, <<"KI", "BR">>, <<"BU", "OS">>}

InitAlerts ==
    /\ apiKey = TRUE
    /\ endpoint = "journey"
    /\ pc = "awaitAlerts"
    /\ \E q \in AlertQueries : origin = q[1] /\ destination = q[2]
    /\ stop = Undefined
    /\ journeyResult = Rejected("Metrolinx API error")
    /\ nextServiceResult = Rejected("Metrolinx API error")
    /\ alertsResult = Pending
    /\ otherResult = Pending
    /\ scheduleDepartures = <<>>
    /\ filteredRealTime = <<>>
    /\ mergedDepartures = <<>>
    /\ sortedDepartures = <<>>
    /\ response = NoResponse
    /\ upstreamCalls = <<"Schedule/Journey", "Stop/NextService", "ServiceUpdate/ServiceAlert">>
    /\ peer = IdlePeer
    /\ ClientInit

ManyAlertBodies ==
    {[Messages |-> <<m>> \o rest, isArray |-> TRUE] :
        m \in ScopedMessages, rest \in SeqsUpTo(OtherMessages, MaxMessages - 1)}

ManyAlertOutcomes == fetchMetrolinx(ManyAlertBodies)

NextAlerts == \E r \in ManyAlertOutcomes : AlertsSettles(r)

SpecAlerts == InitAlerts /\ [][NextAlerts]_vars

-----------------------------------------------------------------------------
(* The direction filter over lines and direction texts: /api/journey from the
   state where both fetches have settled. *)

\* the lines of one next-service response, for the direction filter
MaxRtLines == 2

RtLineOn(trip, code, dir) ==
    [kind |-> "object", TripNumber |-> trip, LineCode |-> code, LineName |-> Undefined,
     ServiceType |-> "T", DirectionName |-> dir,
     ScheduledDepartureTime |-> "2024-06-01 08:15", ComputedDepartureTime |-> "2024-06-01 08:22",
     DepartureStatus |-> Undefined, ScheduledPlatform |-> Undefined, ActualPlatform |-> Undefined]

FilterLineCodes == {"LW", "ST"}

\* terminals at either end and in the middle of the two lines, a terminal whose
\* name holds the name of another station, a terminal that is no station, and
\* texts without the separator
FilterDirections ==
    {"LW - Union Station", "LW - Aldershot GO", "LW - Oakville GO", "LW - Downtown",
     "ST - Unionville GO", "ST - Mount Joy GO", "Kennedy shuttle", "Union Station"}

\* on Lakeshore West, on Stouffville, and from one line to the other
FilterQueries ==
    {<<"BU", "OA">>, <<"BU", "AL">>, <<"OA", "BU">>, <<"BU", "UN">>,
     <<"MK", "KE">>, <<"KE", "AG">>, <<"MK", "UN">>, <<"BU", "KE">>}

\* the trip number of the line at position i of the response
PositionTrip(i) == "T" \o ToString(i)

\* a schedule of the one trip T1, which the first line of the response bears
OneTripSchedule ==
    [SchJourneys |-> <<[Services |->
        <<Service("2024-06-01 08:15", "2024-06-01 09:30", FALSE,
                  <<Trip("T1", "LW", "Lakeshore West", "T")>>)>>]>>]

InitFilter ==
    /\ apiKey = TRUE
    /\ endpoint = "journey"
    /\ pc = "awaitFeeds"
    /\ \E q \in FilterQueries : origin = q[1] /\ destination = q[2]
    /\ stop = Undefined
    /\ journeyResult \in {Rejected("Metrolinx API error"), Fulfilled(OneTripSchedule)}
    /\ \E n \in 1..MaxRtLines : \E codes \in [1..n -> FilterLineCodes] :
          \E dirs \in [1..n -> FilterDirections] :
             nextServiceResult =
                 Fulfilled([Lines |-> [i \in 1..n |-> RtLineOn(PositionTrip(i), codes[i], dirs[i])],
                            isArray |-> TRUE])
    /\ alertsResult = Pending
    /\ otherResult = Pending
    /\ scheduleDepartures = <<>>
    /\ filteredRealTime = <<>>
    /\ mergedDepartures = <<>>
    /\ sortedDepartures = <<>>
    /\ response = NoResponse
    /\ upstreamCalls = <<"Schedule/Journey", "Stop/NextService">>
    /\ peer = IdlePeer
    /\ ClientInit

NextFilter == Aggregate

SpecFilter == InitFilter /\ [][NextFilter]_vars

-----------------------------------------------------------------------------
(* Delay and status over the timestamps and status codes of the next-service
   lines: /api/journey, Burlington to Union, after both fetches have settled. *)

RtLineAt(trip, sched, comp, status, splat, aplat) ==
    RtLine(trip, "LW - Union Station", sched, comp, status, splat, aplat)

DelayScheduledTimes == {"2024-06-01 08:15", Undefined, "soon"}

\* on time, 5 minutes, 5.5 minutes and 7 minutes late, 5 and 5.5 minutes early,
\* absent, and a text that is no timestamp
DelayComputedTimes ==
    {"2024-06-01 08:15", "2024-06-01 08:20", "2024-06-01 08:20:30", "2024-06-01 08:22",
     "2024-06-01 08:10", "2024-06-01 08:09:30", Undefined, "late"}

DelayStatusCodes == {Undefined, "C", "L"}

DelayPlatforms == {<<Undefined, Undefined>>, <<"5", Undefined>>, <<Undefined, "3">>}

\* the lines that follow the first: 5 minutes early, 5 minutes late, and one
\* without a scheduled time
FollowingLines(i) ==
    <<RtLineAt(PositionTrip(i), "2024-06-01 08:15", "2024-06-01 08:10", Undefined, Undefined, Undefined),
      RtLineAt(PositionTrip(i), "2024-06-01 08:15", "2024-06-01 08:20", Undefined, "5", "3"),
      RtLineAt(PositionTrip(i), Undefined, "2024-06-01 08:20", Undefined, Undefined, Undefined)>>

InitDelay ==
    /\ apiKey = TRUE
    /\ endpoint = "journey"
    /\ pc = "awaitFeeds"
    /\ origin = "BU"
    /\ destination = "UN"
    /\ stop = Undefined
    /\ journeyResult \in {Rejected("Metrolinx API error"), Fulfilled(OneTripSchedule)}
    /\ \E sched \in DelayScheduledTimes : \E comp \in DelayComputedTimes :
          \E status \in DelayStatusCodes : \E plat \in DelayPlatforms :
             \E n \in 1..MaxRtLines : \E rest \in [2..n -> 1..3] :
                nextServiceResult =
                    Fulfilled([Lines |->
                        [i \in 1..n |->
                            IF i = 1
                            THEN RtLineAt(PositionTrip(1), sched, comp, status, plat[1], plat[2])
                            ELSE FollowingLines(i)[rest[i]]],
                        isArray |-> TRUE])
    /\ alertsResult = Pending
    /\ otherResult = Pending
    /\ scheduleDepartures = <<>>
    /\ filteredRealTime = <<>>
    /\ mergedDepartures = <<>>
    /\ sortedDepartures = <<>>
    /\ response = NoResponse
    /\ upstreamCalls = <<"Schedule/Journey", "Stop/NextService">>
    /\ peer = IdlePeer
    /\ ClientInit

NextDelay ==
    \/ Aggregate
    \/ \E r \in fetchMetrolinx(FewAlertBodies) : AlertsSettles(r)

SpecDelay == InitDelay /\ [][NextDelay]_vars

-----------------------------------------------------------------------------
(* Two /api/journey requests in flight: the request of the variables above and
   a second invocation of the same handler, whose locals are the fields of
   peer. Their steps interleave at every await. *)

\* a dedup set kept at module level: the trip numbers another request has seen
ModuleLevelTripNumbers(seenByOthers) == seenByOthers

\* routes.ts:137: const tripNumbers = new Set<string>() is made inside the
\* handler, empty for every invocation, whatever other requests have seen
HandlerLocalTripNumbers(seenByOthers) == {}

\* what the steps of the second request leave alone
PeerFrame ==
    UNCHANGED <<apiKey, clientVars, endpoint, pc, origin, destination, stop, journeyResult,
                nextServiceResult, alertsResult, otherResult, scheduleDepartures,
                filteredRealTime, mergedDepartures, sortedDepartures, response>>

\* routes.ts:95-130
PeerJourneyRequest(o, d) ==
    /\ peer.pc = "idle"
    /\ IF ~apiKey
       THEN /\ peer' = [peer EXCEPT !.origin = o, !.destination = d,
                                    !.response = KeyMissing, !.pc = "done"]
            /\ UNCHANGED upstreamCalls
       ELSE IF ~Truthy(o) \/ ~Truthy(d)
       THEN /\ peer' = [peer EXCEPT !.origin = o, !.destination = d,
                           !.response = Json(400, "Origin and destination required", <<>>, <<>>, <<>>),
                           !.pc = "done"]
            /\ UNCHANGED upstreamCalls
       ELSE /\ peer' = [peer EXCEPT !.origin = o, !.destination = d, !.pc = "awaitFeeds"]
            /\ upstreamCalls' = upstreamCalls \o <<"Schedule/Journey", "Stop/NextService">>
    /\ PeerFrame

\* routes.ts:127-130
PeerJourneySettles(r) ==
    /\ peer.pc = "awaitFeeds"
    /\ peer.journeyResult.status = "pending"
    /\ peer' = [peer EXCEPT !.journeyResult = r]
    /\ UNCHANGED upstreamCalls
    /\ PeerFrame

PeerNextServiceSettles(r) ==
    /\ peer.pc = "awaitFeeds"
    /\ peer.nextServiceResult.status = "pending"
    /\ peer' = [peer EXCEPT !.nextServiceResult = r]
    /\ UNCHANGED upstreamCalls
    /\ PeerFrame

\* routes.ts:132-317
PeerAggregate ==
    /\ peer.pc = "awaitFeeds"
    /\ peer.journeyResult.status # "pending"
    /\ peer.nextServiceResult.status # "pending"
    /\ LET seen == {scheduleDepartures[i].tripNumber : i \in 1..Len(scheduleDepartures)}
           sched == ParseLoop(TripsInOrder(SchJourneys(peer.journeyResult)),
                              HandlerLocalTripNumbers(seen), <<>>)
           filtered == FilterRealTime(RawLines(peer.nextServiceResult), peer.origin, peer.destination)
           merged == MergeDepartures(sched, filtered)
       IN IF AwaitFeedsThrows(peer.journeyResult, peer.nextServiceResult)
             \/ FilterThrows(RawLines(peer.nextServiceResult))
          THEN /\ peer' = [peer EXCEPT !.scheduleDepartures = sched,
                              !.response = Json(500, "Failed to fetch journey data", <<>>, <<>>, <<>>),
                              !.pc = "done"]
               /\ UNCHANGED upstreamCalls
          ELSE /\ \E sorted \in SortResults(WithDepartureTime(merged)) :
                     peer' = [peer EXCEPT !.scheduleDepartures = sched,
                                 !.filteredRealTime = filtered,
                                 !.mergedDepartures = merged,
                                 !.sortedDepartures = sorted,
                                 !.pc = "awaitAlerts"]
               /\ upstreamCalls' = Append(upstreamCalls, "ServiceUpdate/ServiceAlert")
    /\ PeerFrame

\* routes.ts:317-363
PeerAlertsSettles(r) ==
    /\ peer.pc = "awaitAlerts"
    /\ peer' = [peer EXCEPT !.alertsResult = r,
                   !.response = JourneyResponse(peer.sortedDepartures, r, peer.origin, peer.destination),
                   !.pc = "done"]
    /\ UNCHANGED upstreamCalls
    /\ PeerFrame

\* Burlington or Oakville to Union, and a request without destination
PairQueries == {<<"BU", "UN">>, <<"OA", "UN">>, <<"BU", Undefined>>}

\* a schedule of the trips T1 and T2
TwoTripSchedule ==
    [SchJourneys |-> <<[Services |->
        <<Service("2024-06-01 08:15", "2024-06-01 09:30", FALSE,
                  <<Trip("T1", "LW", "Lakeshore West", "T")>>),
          Service("2024-06-01 07:50", "2024-06-01 09:05", FALSE,
                  <<Trip("T2", "LW", "Lakeshore West", "T")>>)>>]>>]

PairJourneyOutcomes ==
    {Rejected("Metrolinx API error"), Fulfilled(OneTripSchedule), Fulfilled(TwoTripSchedule)}

\* T1 late with T3 early, and a response with a null line
PairNextServiceOutcomes ==
    {Rejected("Metrolinx API error"),
     Fulfilled([Lines |-> <<RtLineAt("T1", "2024-06-01 08:15", "2024-06-01 08:22", Undefined, "5", Undefined),
                            RtLineAt("T3", "2024-06-01 08:15", "2024-06-01 08:10", Undefined, Undefined, Undefined)>>,
                isArray |-> TRUE]),
     Fulfilled([Lines |-> <<NullLine>>, isArray |-> TRUE])}

PairAlertOutcomes == {Rejected("Metrolinx API error")} \cup {Fulfilled(b) : b \in FewAlertBodies}

NextPair ==
    \/ \E q \in PairQueries : JourneyRequest(q[1], q[2])
    \/ \E r \in PairJourneyOutcomes : JourneySettles(r)
    \/ \E r \in PairNextServiceOutcomes : NextServiceSettles(r)
    \/ Aggregate
    \/ \E r \in PairAlertOutcomes : AlertsSettles(r)
    \/ \E q \in PairQueries : PeerJourneyRequest(q[1], q[2])
    \/ \E r \in PairJourneyOutcomes : PeerJourneySettles(r)
    \/ \E r \in PairNextServiceOutcomes : PeerNextServiceSettles(r)
    \/ PeerAggregate
    \/ \E r \in PairAlertOutcomes : PeerAlertsSettles(r)

SpecPair == Init /\ [][NextPair]_vars

-----------------------------------------------------------------------------
(* The line lookup over every pair of station codes: /api/journey from the
   state where both fetches have settled, the schedule fetch rejected and the
   next-service response holding one train of each of two lines. *)

\* every station code of the line table, a code with a name and no line, and
\* a code the tables do not know
AllStationCodes ==
    UNION {{LINE_DESTINATIONS[i].stations[k] : k \in 1..Len(LINE_DESTINATIONS[i].stations)} :
              i \in 1..Len(LINE_DESTINATIONS)} \cup {"CF", "XX"}

\* a Lakeshore West train and a Stouffville train, both towards Union
TwoLineBody ==
    [Lines |-> <<RtLineOn("T1", "LW", "LW - Union Station"),
                 RtLineOn("T2", "ST", "ST - Union Station")>>,
     isArray |-> TRUE]

InitRoute ==
    /\ apiKey = TRUE
    /\ endpoint = "journey"
    /\ pc = "awaitFeeds"
    /\ origin \in AllStationCodes
    /\ destination \in AllStationCodes
    /\ stop = Undefined
    /\ journeyResult = Rejected("Metrolinx API error")
    /\ nextServiceResult = Fulfilled(TwoLineBody)
    /\ alertsResult = Pending
    /\ otherResult = Pending
    /\ scheduleDepartures = <<>>
    /\ filteredRealTime = <<>>
    /\ mergedDepartures = <<>>
    /\ sortedDepartures = <<>>
    /\ response = NoResponse
    /\ upstreamCalls = <<"Schedule/Journey", "Stop/NextService">>
    /\ peer = IdlePeer
    /\ ClientInit

NextRoute == Aggregate

SpecRoute == InitRoute /\ [][NextRoute]_vars

-----------------------------------------------------------------------------
(* A long service day: /api/journey from the state where both fetches have
   settled, the next-service fetch rejected and the schedule holding up to
   MaxDayTrips trips, some of them without a start time. *)

\* the trips of one long schedule response
MaxDayTrips == 12

\* the service of the trip at position i: odd positions leave at 08:15, even
\* ones at 07:50, and a service may lack its StartTime
DayService(i, timed) ==
    Service(IF ~timed THEN Undefined
            ELSE IF i % 2 = 1 THEN "2024-06-01 08:15" ELSE "2024-06-01 07:50",
            "2024-06-01 09:30", FALSE,
            <<Trip(PositionTrip(i), "LW", "Lakeshore West", "T")>>)

InitDay ==
    /\ apiKey = TRUE
    /\ endpoint = "journey"
    /\ pc = "awaitFeeds"
    /\ origin = "BU"
    /\ destination = "UN"
    /\ stop = Undefined
    /\ \E n \in 1..MaxDayTrips : \E timed \in [1..n -> BOOLEAN] :
          journeyResult =
              Fulfilled([SchJourneys |-> <<[Services |-> [i \in 1..n |-> DayService(i, timed[i])]]>>])
    /\ nextServiceResult = Rejected("Metrolinx API error")
    /\ alertsResult = Pending
    /\ otherResult = Pending
    /\ scheduleDepartures = <<>>
    /\ filteredRealTime = <<>>
    /\ mergedDepartures = <<>>
    /\ sortedDepartures = <<>>
    /\ response = NoResponse
    /\ upstreamCalls = <<"Schedule/Journey", "Stop/NextService">>
    /\ peer = IdlePeer
    /\ ClientInit

NextDay ==
    \/ Aggregate
    \/ \E r \in fetchMetrolinx(FewAlertBodies) : AlertsSettles(r)

SpecDay == InitDay /\ [][NextDay]_vars

-----------------------------------------------------------------------------
(* The client's saved routes: up to MaxStorageOps calls of saveRoute and
   deleteRoute by two callers whose storage reads and writes interleave. *)

NextStorage ==
    \/ \E c \in StorageCallers : \E o, d \in PickedStations : SaveRouteCall(c, o, d)
    \/ \E c \in StorageCallers : \E i \in 1..MaxStorageOps : DeleteRouteCall(c, i)
    \/ \E c \in StorageCallers : \E ok \in BOOLEAN : GetItemSettles(c, ok)
    \/ \E c \in StorageCallers : \E ok \in BOOLEAN : SetItemSettles(c, ok)

SpecStorage == Init /\ [][NextStorage]_vars

-----------------------------------------------------------------------------
(* Properties of GET /api/journey *)

JourneyDone == endpoint = "journey" /\ pc = "done"

JourneyOk == JourneyDone /\ response.status = 200

TripNumbersOf(deps) == {deps[i].tripNumber : i \in 1..Len(deps)}

RealTimeTripNumbers == {filteredRealTime[i].TripNumber : i \in 1..Len(filteredRealTime)}

\* the last filtered real-time entry of a trip number
LastRealTime(n) ==
    filteredRealTime[CHOOSE i \in 1..Len(filteredRealTime) :
        /\ filteredRealTime[i].TripNumber = n
        /\ \A j \in (i + 1)..Len(filteredRealTime) : filteredRealTime[j].TripNumber # n]

\* C1: no trip number occurs twice in the departures of the response, nor in
\* the merged list they come from: a trip of both feeds is one entry.
C1_NoTripNumberTwice ==
    /\ \A i, j \in 1..Len(response.departures) :
          i < j => response.departures[i].tripNumber # response.departures[j].tripNumber
    /\ \A i, j \in 1..Len(mergedDepartures) :
          i < j => mergedDepartures[i].tripNumber # mergedDepartures[j].tripNumber

\* a response with two departures, one of a trip that both feeds hold
C1_Witness ==
    /\ JourneyOk
    /\ Len(response.departures) >= 2
    /\ \E i \in 1..Len(response.departures) :
          /\ response.departures[i].tripNumber \in TripNumbersOf(scheduleDepartures)
          /\ response.departures[i].tripNumber \in RealTimeTripNumbers

\* C2: every two adjacent departures of the response are in ascending order of
\* their parsed departure times, whatever the upstream responses are.
C2_SortedByParsedTime ==
    JourneyOk =>
        \A i \in 1..(Len(response.departures) - 1) :
            LET a == ParseTime(response.departures[i].departureTime)
                b == ParseTime(response.departures[i + 1].departureTime)
            IN ~a.nan /\ ~b.nan /\ a.v <= b.v

\* the positions <<journey, service, trip>> of the schedule response
TripPositions ==
    LET js == SchJourneys(journeyResult)
    IN UNION {UNION {{<<j, k, t>> : t \in 1..Len(js[j].Services[k].Trips.items)} :
                      k \in 1..Len(js[j].Services)} :
               j \in 1..Len(js)}

ServiceAt(p) == SchJourneys(journeyResult)[p[1]].Services[p[2]]

TripAt(p) == ServiceAt(p).Trips.items[p[3]]

\* journey, service, trip order
Precedes(p, q) ==
    \/ p[1] < q[1]
    \/ p[1] = q[1] /\ p[2] < q[2]
    \/ p[1] = q[1] /\ p[2] = q[2] /\ p[3] < q[3]

OccurrencesOf(n) == {p \in TripPositions : TripAt(p).kind # "null" /\ TripAt(p).Number = n}

\* C3: once the schedule is parsed, every trip number of the schedule response
\* has exactly one scheduled departure, and its departure time, arrival time,
\* line and vehicle type are those of the first occurrence of the number in
\* journey, service, trip order.
C3_FirstOccurrenceKept ==
    (endpoint = "journey" /\ pc \in {"awaitAlerts", "done"} /\ journeyResult.status = "fulfilled") =>
        \A n \in {"T100", "T200"} :
            LET occ == OccurrencesOf(n)
                kept == {i \in 1..Len(scheduleDepartures) : scheduleDepartures[i].tripNumber = n}
            IN /\ occ = {} => kept = {}
               /\ occ # {} =>
                     /\ Cardinality(kept) = 1
                     /\ LET first == CHOOSE p \in occ : \A q \in occ \ {p} : Precedes(p, q)
                            dep == scheduleDepartures[CHOOSE i \in kept : TRUE]
                        IN /\ dep.departureTime = ServiceAt(first).StartTime
                           /\ dep.arrivalTime = ServiceAt(first).EndTime
                           /\ dep.line = TripAt(first).Display
                           /\ dep.vehicleType = (IF TripAt(first).Type = "T" THEN "train" ELSE "bus")

\* a trip number that occurs in two journeys, first as a bus at 07:50 and then
\* as a train at 08:15, parsed to the single bus departure
C3_Witness ==
    /\ pc = "awaitAlerts"
    /\ Len(SchJourneys(journeyResult)) >= 2
    /\ \E p, q \in OccurrencesOf("T100") :
          /\ p[1] < q[1]
          /\ \A r \in OccurrencesOf("T100") : r = p \/ Precedes(p, r)
          /\ TripAt(p).Type = Undefined
          /\ TripAt(q).Type = "T"
          /\ ServiceAt(p).StartTime = "2024-06-01 07:50"
          /\ ServiceAt(q).StartTime = "2024-06-01 08:15"
    /\ \E i \in 1..Len(scheduleDepartures) :
          /\ scheduleDepartures[i].tripNumber = "T100"
          /\ scheduleDepartures[i].vehicleType = "bus"
          /\ scheduleDepartures[i].departureTime = "2024-06-01 07:50"

\* C4: the merged departure of a trip number that the schedule and the filtered
\* real-time lookup both hold has the delay, status and platform derived from
\* the real-time entry of the lookup, in the merged list and in the response.
C4_EnrichedFromRealTime ==
    \A i \in 1..Len(scheduleDepartures) :
        scheduleDepartures[i].tripNumber \in RealTimeTripNumbers =>
            LET rt == LastRealTime(scheduleDepartures[i].tripNumber)
                FromRealTime(dep) ==
                    /\ dep.delay = DelayMinutes(rt)
                    /\ dep.status = (IF rt.DepartureStatus = "C" THEN "cancelled"
                                     ELSE IF IsDelayed(rt) THEN "delayed" ELSE "on_time")
                    /\ dep.platform = OrElse(rt.ScheduledPlatform, OrElse(rt.ActualPlatform, Undefined))
            IN /\ mergedDepartures[i].tripNumber = scheduleDepartures[i].tripNumber
               /\ FromRealTime(mergedDepartures[i])
               /\ \A j \in 1..Len(response.departures) :
                     response.departures[j].tripNumber = scheduleDepartures[i].tripNumber
                         => FromRealTime(response.departures[j])

\* a scheduled trip answered seven minutes late at platform 5
C4_Witness ==
    /\ JourneyOk
    /\ \E i \in 1..Len(scheduleDepartures), j \in 1..Len(response.departures) :
          /\ scheduleDepartures[i].tripNumber \in RealTimeTripNumbers
          /\ response.departures[j].tripNumber = scheduleDepartures[i].tripNumber
          /\ scheduleDepartures[i].delay = Num(0)
          /\ response.departures[j].delay = Num(7)
          /\ response.departures[j].status = "delayed"
          /\ response.departures[j].platform = "5"

\* C5: when the next-service fetch is rejected and the schedule fetch is
\* fulfilled, the request is answered 200 and its departures are the scheduled
\* departures that have a departure time, each as the schedule parse made it:
\* delay 0, status on_time.
C5_ScheduleOnlyPassThrough ==
    (JourneyDone /\ journeyResult.status = "fulfilled" /\ nextServiceResult.status = "rejected") =>
        /\ response.status = 200
        /\ response.error = Undefined
        /\ \A i \in 1..Len(scheduleDepartures) :
              Truthy(scheduleDepartures[i].departureTime) =>
                  \E j \in 1..Len(response.departures) :
                      response.departures[j] = scheduleDepartures[i]
        /\ \A j \in 1..Len(response.departures) :
              /\ \E i \in 1..Len(scheduleDepartures) : response.departures[j] = scheduleDepartures[i]
              /\ response.departures[j].delay = Num(0)
              /\ response.departures[j].status = "on_time"
        /\ Len(response.departures)
              = Cardinality({i \in 1..Len(scheduleDepartures) : Truthy(scheduleDepartures[i].departureTime)})

\* two scheduled departures answered after the next-service body did not decode
C5_Witness ==
    /\ JourneyDone
    /\ journeyResult.status = "fulfilled"
    /\ nextServiceResult = Rejected("Invalid JSON response from Metrolinx API")
    /\ Len(scheduleDepartures) = 2
    /\ Len(response.departures) = 2

\* C6: when the schedule fetch is rejected and the next-service fetch is
\* fulfilled, the request is answered 200 and its departures are those of the
\* next-service entries that pass the direction filter.
C6_RealTimeOnlyFallback ==
    (JourneyDone /\ journeyResult.status = "rejected" /\ nextServiceResult.status = "fulfilled") =>
        /\ response.status = 200
        /\ \A j \in 1..Len(response.departures) :
              /\ response.departures[j].source = "realtime"
              /\ \E i \in 1..Len(RawLines(nextServiceResult)) :
                    /\ TowardDestination(RawLines(nextServiceResult)[i], origin, destination)
                    /\ RawLines(nextServiceResult)[i].TripNumber = response.departures[j].tripNumber
        /\ \A i \in 1..Len(RawLines(nextServiceResult)) :
              (/\ TowardDestination(RawLines(nextServiceResult)[i], origin, destination)
               /\ Truthy(RawLines(nextServiceResult)[i].ScheduledDepartureTime)) =>
                  RawLines(nextServiceResult)[i].TripNumber \in TripNumbersOf(response.departures)

\* C7: when the schedule fetch and the next-service fetch are both rejected,
\* the response carries a failure indicator and empty departures and alerts.
C7_BothFeedsFailedIsFailure ==
    (JourneyDone /\ journeyResult.status = "rejected" /\ nextServiceResult.status = "rejected") =>
        /\ response.status # 200
        /\ response.error # Undefined
        /\ response.departures = <<>>
        /\ response.alerts = <<>>

\* C8: when the alerts fetch is rejected, or the alerts parse throws, the
\* request is still answered 200 with the departures sorted before the alerts
\* fetch, and with no alerts.
C8_AlertsFailureTolerated ==
    (JourneyDone /\ alertsResult.status # "pending"
        /\ (alertsResult.status = "rejected" \/ AlertsThrow(AlertMessages(alertsResult)))) =>
        /\ response.status = 200
        /\ response.error = Undefined
        /\ response.departures = sortedDepartures
        /\ response.alerts = <<>>

\* departures answered although the alerts fetch was rejected
C8_Witness ==
    /\ JourneyDone
    /\ alertsResult.status = "rejected"
    /\ Len(response.departures) >= 2
    /\ response.status = 200

\* C9: without an API key no handler issues an upstream call, and each one
\* answers at once with the credential-missing error.
C9_NoKeyNoUpstreamCall ==
    ~apiKey =>
        /\ upstreamCalls = <<>>
        /\ pc \in {"idle", "done"}
        /\ pc = "done" =>
              /\ response.status = 500
              /\ response.error = "API key not configured"
              /\ endpoint \in {"stations", "journey", "departures", "alerts"}

\* /api/alerts, and /api/journey without its parameters, answered without a key
C9_Witness ==
    /\ ~apiKey
    /\ pc = "done"
    /\ response = KeyMissing
    /\ \/ endpoint = "alerts"
       \/ endpoint = "journey" /\ ~Truthy(origin)

\* the codes a route is matched on: its inferred line code, origin, destination
RouteCodes == ({getLineForRoute(origin, destination)} \ {Undefined}) \cup {origin, destination}

\* C10: of the alerts parsed from the alerts response, the ones of the journey
\* response are those whose affected-routes list is empty, and those whose list
\* contains the inferred line code of the route, the origin code or the
\* destination code; no other alert is in the result.
C10_AlertFilter ==
    (JourneyOk /\ alertsResult.status = "fulfilled" /\ ~AlertsThrow(AlertMessages(alertsResult))) =>
        LET msgs == AlertMessages(alertsResult)
            InResult(alert) == \E j \in 1..Len(response.alerts) : response.alerts[j] = alert
            Named(alert) == {alert.affectedRoutes[k] : k \in 1..Len(alert.affectedRoutes)}
        IN /\ \A i \in 1..Len(msgs) :
                 InResult(ParseAlert(msgs[i])) <=>
                     (Named(ParseAlert(msgs[i])) = {} \/ Named(ParseAlert(msgs[i])) \cap RouteCodes # {})
           /\ \A j \in 1..Len(response.alerts) :
                 \E i \in 1..Len(msgs) : response.alerts[j] = ParseAlert(msgs[i])
           /\ Len(response.alerts) <= Len(msgs)

\* Burlington to Union: the alert that names only Union is answered, the alert
\* of the Kitchener line that follows it is not
C10_Witness ==
    /\ JourneyOk
    /\ origin = "BU" /\ destination = "UN"
    /\ Len(AlertMessages(alertsResult)) = 2
    /\ AffectedLines(AlertMessages(alertsResult)[2]) = <<"GT">>
    /\ Len(response.alerts) = 1
    /\ response.alerts[1].affectedRoutes = <<"UN">>

-----------------------------------------------------------------------------
(* Properties of the direction filter *)

\* the feeds are parsed, filtered, merged and sorted
Aggregated == endpoint = "journey" /\ (pc = "awaitAlerts" \/ JourneyOk)

\* the line that serves origin and destination, by the station lists
RouteLines ==
    {LINE_DESTINATIONS[i].code : i \in {j \in 1..Len(LINE_DESTINATIONS) :
        /\ \E k \in 1..Len(LINE_DESTINATIONS[j].stations) : LINE_DESTINATIONS[j].stations[k] = origin
        /\ \E k \in 1..Len(LINE_DESTINATIONS[j].stations) : LINE_DESTINATIONS[j].stations[k] = destination}}

Accepted(line) == \E k \in 1..Len(filteredRealTime) : filteredRealTime[k] = line

\* the position on the line of the station that the terminal text names: the
\* station whose name the text holds, the longest name when it holds several
NamedTerminal(stations, text) ==
    LET held == {i \in 1..Len(stations) :
                    Includes(ToLowerCase(text), ToLowerCase(StationName(stations[i])))}
    IN {i \in held : \A j \in held : Len(StationName(stations[j])) <= Len(StationName(stations[i]))}

PositionOf(stations, code) == {i \in 1..Len(stations) : stations[i] = code}

\* C11: a next-service entry on the line of the route whose direction text does
\* not hold the name of the destination is accepted if and only if the text
\* after " - " names a station of the line and the destination lies between
\* the origin and that terminal, the terminal included, in either direction.
C11_TerminalOrder ==
    Aggregated =>
        \A i \in 1..Len(RawLines(nextServiceResult)) :
            LET line == RawLines(nextServiceResult)[i]
                stations == LineStations(line.LineCode)
            IN (/\ line.LineCode \in RouteLines
                /\ ~Includes(ToLowerCase(line.DirectionName), ToLowerCase(StationName(destination)))) =>
                   (Accepted(line) <=>
                       \E t \in NamedTerminal(stations, AfterSeparator(line.DirectionName)) :
                           \E o \in PositionOf(stations, origin) :
                               \E d \in PositionOf(stations, destination) :
                                   (o < d /\ d <= t) \/ (o > d /\ d >= t))

\* C12: when a line serves origin and destination, an entry of another line is
\* not accepted, whatever its direction text, no departure is made from it,
\* and the scheduled departure of its trip number stays as parsed.
C12_OtherLineRejected ==
    (Aggregated /\ RouteLines # {}) =>
        \A i \in 1..Len(RawLines(nextServiceResult)) :
            LET line == RawLines(nextServiceResult)[i]
            IN line.LineCode \notin RouteLines =>
                  /\ ~Accepted(line)
                  /\ \A j \in 1..Len(mergedDepartures) :
                        mergedDepartures[j].tripNumber = line.TripNumber =>
                            /\ mergedDepartures[j].source = "schedule"
                            /\ \E k \in 1..Len(scheduleDepartures) :
                                  mergedDepartures[j] = scheduleDepartures[k]
                  /\ \A j \in 1..Len(sortedDepartures) :
                        sortedDepartures[j].tripNumber = line.TripNumber =>
                            \E k \in 1..Len(scheduleDepartures) :
                                sortedDepartures[j] = scheduleDepartures[k]

\* Milliken to Kennedy on the Stouffville line: the Lakeshore West entry of the
\* scheduled trip T1 names Kennedy and is rejected, the Stouffville entry is
\* accepted
C12_Witness ==
    /\ pc = "awaitAlerts"
    /\ origin = "MK" /\ destination = "KE"
    /\ Len(RawLines(nextServiceResult)) = 2
    /\ RawLines(nextServiceResult)[1].LineCode = "LW"
    /\ RawLines(nextServiceResult)[1].DirectionName = "Kennedy shuttle"
    /\ RawLines(nextServiceResult)[2].LineCode = "ST"
    /\ Len(filteredRealTime) = 1
    /\ Len(scheduleDepartures) = 1
    /\ mergedDepartures[1] = scheduleDepartures[1]
    /\ Len(mergedDepartures) = 2

-----------------------------------------------------------------------------
(* Properties of the departures made from next-service entries *)

\* the departures of the merged list and of the response that bear the trip
\* number of a filtered next-service entry
FromRealTimeEntry(dep) == dep.tripNumber \in RealTimeTripNumbers

DeparturesMade ==
    {mergedDepartures[j] : j \in 1..Len(mergedDepartures)}
        \cup {response.departures[j] : j \in 1..Len(response.departures)}

\* C13: a departure enriched by or made from a next-service entry is cancelled
\* when the status code of the entry is "C"; otherwise delayed when its delay
\* is above 5 minutes or the status code is "L"; otherwise on_time.
C13_StatusRule ==
    \A dep \in DeparturesMade :
        FromRealTimeEntry(dep) =>
            LET code == LastRealTime(dep.tripNumber).DepartureStatus
            IN dep.status =
                  (IF code = "C" THEN "cancelled"
                   ELSE IF (~dep.delay.nan /\ dep.delay.v > 5) \/ code = "L" THEN "delayed"
                   ELSE "on_time")

\* a cancelled departure that is 7 minutes late, answered with a departure
\* that is 5 minutes late and on time
C13_Witness ==
    /\ JourneyOk
    /\ \E a, b \in 1..Len(response.departures) :
          /\ response.departures[a].status = "cancelled"
          /\ response.departures[a].delay = Num(7)
          /\ response.departures[b].status = "on_time"
          /\ response.departures[b].delay = Num(5)

TimestampsUsable(line) ==
    /\ line.ScheduledDepartureTime # Undefined => ~ParseTime(line.ScheduledDepartureTime).nan
    /\ line.ComputedDepartureTime # Undefined => ~ParseTime(line.ComputedDepartureTime).nan

\* C14: the delay of a departure enriched by or made from a next-service entry
\* whose timestamps parse is the integer nearest to the minutes from the
\* scheduled to the computed departure time, negative for an early departure;
\* it is 0 when a timestamp is absent or the two are equal.
C14_DelayIsSignedDifference ==
    \A dep \in DeparturesMade :
        (FromRealTimeEntry(dep) /\ TimestampsUsable(LastRealTime(dep.tripNumber))) =>
            LET rt == LastRealTime(dep.tripNumber)
            IN /\ ~dep.delay.nan
               /\ IF rt.ScheduledDepartureTime = Undefined \/ rt.ComputedDepartureTime = Undefined
                  THEN dep.delay.v = 0
                  ELSE LET ms == ParseTime(rt.ComputedDepartureTime).v
                                   - ParseTime(rt.ScheduledDepartureTime).v
                       IN /\ dep.delay.v * 60000 - 30000 <= ms
                          /\ ms < dep.delay.v * 60000 + 30000

\* scheduled 08:15 and computed 08:22: delay 7 and delayed; with a departure
\* that leaves 5 minutes early
C14_Witness ==
    /\ JourneyOk
    /\ \E a, b \in 1..Len(response.departures) :
          /\ LastRealTime(response.departures[a].tripNumber).ScheduledDepartureTime = "2024-06-01 08:15"
          /\ LastRealTime(response.departures[a].tripNumber).ComputedDepartureTime = "2024-06-01 08:22"
          /\ response.departures[a].delay = Num(7)
          /\ response.departures[a].status = "delayed"
          /\ response.departures[b].delay = Num(0 - 5)

\* C15: a departure enriched by or made from a next-service entry with a
\* timestamp that is present and does not parse has delay 0, and the request
\* is answered 200.
C15_UnparsableGivesZero ==
    (JourneyDone /\ journeyResult.status # "pending") =>
        /\ response.status = 200
        /\ \A dep \in DeparturesMade :
              (FromRealTimeEntry(dep) /\ ~TimestampsUsable(LastRealTime(dep.tripNumber))) =>
                  dep.delay = Num(0)

\* C16: no departure of the response has a departure time that is not empty
\* and does not parse as a timestamp.
C16_NoUnparsableDeparture ==
    JourneyOk =>
        \A j \in 1..Len(response.departures) :
            \/ response.departures[j].departureTime = ""
            \/ ~ParseTime(response.departures[j].departureTime).nan

\* the trip numbers of the filtered entries that no scheduled departure bears
UnmatchedTripNumbers == RealTimeTripNumbers \ TripNumbersOf(scheduleDepartures)

\* C17: for every entry of the real-time lookup whose trip number no scheduled
\* departure bears, the merged list holds, after the scheduled departures, one
\* departure of that trip number, with an empty arrival time, the source
\* "realtime", and the departure time, delay, status and platform of the
\* entry; an entry used to enrich a scheduled departure is not appended.
C17_UnmatchedAppended ==
    Aggregated =>
        /\ Len(mergedDepartures) = Len(scheduleDepartures) + Cardinality(UnmatchedTripNumbers)
        /\ \A n \in UnmatchedTripNumbers :
              \E j \in (Len(scheduleDepartures) + 1)..Len(mergedDepartures) :
                  LET dep == mergedDepartures[j]
                      rt == LastRealTime(n)
                  IN /\ dep.tripNumber = n
                     /\ dep.arrivalTime = ""
                     /\ dep.source = "realtime"
                     /\ dep.departureTime = OrElse(rt.ScheduledDepartureTime, "")
                     /\ dep.delay = DelayMinutes(rt)
                     /\ dep.status = (IF rt.DepartureStatus = "C" THEN "cancelled"
                                      ELSE IF IsDelayed(rt) THEN "delayed" ELSE "on_time")
                     /\ dep.platform = OrElse(rt.ScheduledPlatform, OrElse(rt.ActualPlatform, Undefined))
        /\ \A j \in (Len(scheduleDepartures) + 1)..Len(mergedDepartures) :
              mergedDepartures[j].tripNumber \in UnmatchedTripNumbers
        /\ \A j \in 1..Len(scheduleDepartures) :
              mergedDepartures[j].source = "schedule"

\* a scheduled trip enriched by its entry, and the entry of another trip
\* appended after it
C17_Witness ==
    /\ Aggregated
    /\ Len(scheduleDepartures) >= 1
    /\ scheduleDepartures[1].tripNumber \in RealTimeTripNumbers
    /\ UnmatchedTripNumbers # {}
    /\ Len(mergedDepartures) = Len(scheduleDepartures) + 1
    /\ mergedDepartures[Len(mergedDepartures)].source = "realtime"
    /\ mergedDepartures[Len(mergedDepartures)].platform = "5"

-----------------------------------------------------------------------------
(* Properties of the course of one request *)

\* C18: a request that has passed the guards and started its fetches is
\* eventually answered, also when an upstream call does not complete.
C18_EventuallyAnswered == (endpoint = "journey" /\ pc = "awaitFeeds") ~> (pc = "done")

\* what a request sends once it has passed the guards: the failure body of the
\* outer catch, or the departures of the full run
C19_ResponseAfterAll ==
    (endpoint = "journey" /\ response # NoResponse /\ response # KeyMissing /\ response.status # 400) =>
        /\ pc = "done"
        /\ journeyResult.status # "pending"
        /\ nextServiceResult.status # "pending"
        /\ scheduleDepartures = ParseSchedule(journeyResult)
        /\ response.status # 200 => response.departures = <<>> /\ response.alerts = <<>>
        /\ response.status = 200 =>
              /\ alertsResult.status # "pending"
              /\ filteredRealTime = FilterRealTime(RawLines(nextServiceResult), origin, destination)
              /\ mergedDepartures = MergeDepartures(scheduleDepartures, filteredRealTime)
              /\ sortedDepartures \in SortResults(WithDepartureTime(mergedDepartures))
              /\ response.departures = sortedDepartures
              /\ upstreamCalls = <<"Schedule/Journey", "Stop/NextService", "ServiceUpdate/ServiceAlert">>

\* C19: a request is answered once, and the answer with its departures is sent
\* only after the schedule fetch and the next-service fetch have settled, the
\* merge and the sort are done and the alerts fetch has settled; before that
\* nothing is sent.
C19_OneResponseAtTheEnd ==
    /\ []C19_ResponseAfterAll
    /\ [][response # NoResponse => response' = response]_vars

\* two departures and the alerts answered after the three fetches
C19_Witness ==
    /\ JourneyOk
    /\ journeyResult.status = "fulfilled"
    /\ nextServiceResult.status = "fulfilled"
    /\ alertsResult.status = "fulfilled"
    /\ Len(response.departures) >= 2
    /\ Len(response.alerts) >= 1

-----------------------------------------------------------------------------
(* Properties of two requests in flight *)

\* the responses a request produces alone from its upstream responses
AloneResponses(jr, nr, ar, o, d) ==
    IF FilterThrows(RawLines(nr))
    THEN {Json(500, "Failed to fetch journey data", <<>>, <<>>, <<>>)}
    ELSE {Json(200, Undefined, sorted, RelevantAlerts(ar, o, d), <<>>) :
            sorted \in SortResults(WithDepartureTime(
                          MergeDepartures(ParseSchedule(jr), FilterRealTime(RawLines(nr), o, d))))}

\* C20: of two requests in flight, under every interleaving of the settling
\* of their fetches, each is answered as it is alone with the same upstream
\* responses.
C20_RequestsIsolated ==
    /\ (endpoint = "journey" /\ pc = "done" /\ journeyResult.status # "pending") =>
          response \in AloneResponses(journeyResult, nextServiceResult, alertsResult,
                                      origin, destination)
    /\ (peer.pc = "done" /\ peer.journeyResult.status # "pending") =>
          peer.response \in AloneResponses(peer.journeyResult, peer.nextServiceResult,
                                           peer.alertsResult, peer.origin, peer.destination)

\* both requests started their fetches before either went on; both schedules
\* hold the trip T1, and each answer has it
C20_Witness ==
    /\ pc = "done" /\ peer.pc = "done"
    /\ response.status = 200 /\ peer.response.status = 200
    /\ SubSeq(upstreamCalls, 1, 4)
          = <<"Schedule/Journey", "Stop/NextService", "Schedule/Journey", "Stop/NextService">>
    /\ journeyResult # peer.journeyResult
    /\ \E j \in 1..Len(response.departures) : response.departures[j].tripNumber = "T1"
    /\ \E j \in 1..Len(peer.response.departures) : peer.response.departures[j].tripNumber = "T1"
    /\ response # peer.response

-----------------------------------------------------------------------------
(* Properties of the upstream calls of GET /api/journey *)

\* the number of requests sent to an upstream path so far
CallsTo(path) == Cardinality({i \in 1..Len(upstreamCalls) : upstreamCalls[i] = path})

JourneyFeeds == {"Schedule/Journey", "Stop/NextService", "ServiceUpdate/ServiceAlert"}

\* C21: within one GET /api/journey request each upstream feed (schedule,
\* next service, alerts) is requested at most once, whatever the outcome of
\* the call: a rejected fetch is followed by no second request to its path,
\* and a request answered 200 has sent exactly one request to each feed.
C21_EachFeedRequestedOnce ==
    endpoint = "journey" =>
        /\ \A path \in JourneyFeeds : CallsTo(path) <= 1
        /\ \A i \in 1..Len(upstreamCalls) : upstreamCalls[i] \in JourneyFeeds
        /\ (pc = "done" /\ response.status = 200) => \A path \in JourneyFeeds : CallsTo(path) = 1

\* all three fetches failed, the request is answered, and each path was
\* requested once
C21_Witness ==
    /\ JourneyDone
    /\ journeyResult.status = "rejected"
    /\ nextServiceResult.status = "rejected"
    /\ alertsResult.status = "rejected"
    /\ upstreamCalls = <<"Schedule/Journey", "Stop/NextService", "ServiceUpdate/ServiceAlert">>

-----------------------------------------------------------------------------
(* Properties of the merge *)

\* C22: a scheduled departure whose trip number is no key of the filtered
\* real-time lookup is, at its position of the merged list, the object the
\* schedule parse made: delay 0, status on_time, platform undefined, and every
\* other field as parsed; also when other departures of the request are enriched.
C22_UnmatchedPassesUnchanged ==
    Aggregated =>
        /\ Len(mergedDepartures) >= Len(scheduleDepartures)
        /\ \A i \in 1..Len(scheduleDepartures) :
              scheduleDepartures[i].tripNumber \notin RealTimeTripNumbers =>
                  /\ mergedDepartures[i] = scheduleDepartures[i]
                  /\ mergedDepartures[i].delay = Num(0)
                  /\ mergedDepartures[i].status = "on_time"
                  /\ mergedDepartures[i].platform = Undefined
                  /\ mergedDepartures[i].source = "schedule"

\* T100 is enriched to a delayed departure while T200, absent from the
\* next-service feed, passes through
C22_Witness ==
    /\ Aggregated
    /\ Len(scheduleDepartures) = 2
    /\ RealTimeTripNumbers = {"T100"}
    /\ \E i, j \in 1..2 :
          /\ scheduleDepartures[i].tripNumber = "T100"
          /\ mergedDepartures[i].status = "delayed"
          /\ mergedDepartures[i] # scheduleDepartures[i]
          /\ scheduleDepartures[j].tripNumber = "T200"
          /\ mergedDepartures[j] = scheduleDepartures[j]

\* the positions of the merged list that bear a trip number
MergedPositionsOf(n) == {j \in 1..Len(mergedDepartures) : mergedDepartures[j].tripNumber = n}

\* C23: the real-time lookup is last-write-wins. For every trip number of the
\* filtered next-service entries the merged list holds exactly one departure,
\* and that departure is the one computed from the LAST filtered entry of the
\* trip number alone: the enrichment of the scheduled departure by that entry
\* when the trip is scheduled, the real-time-only departure of that entry
\* otherwise. Earlier entries of the trip number leave no trace.
C23_LastWriteWins ==
    Aggregated =>
        \A n \in RealTimeTripNumbers :
            /\ Cardinality(MergedPositionsOf(n)) = 1
            /\ \A j \in MergedPositionsOf(n) :
                  IF j <= Len(scheduleDepartures)
                  THEN mergedDepartures[j] = enrichWithRealTime(scheduleDepartures[j], LastRealTime(n))
                  ELSE /\ n \notin TripNumbersOf(scheduleDepartures)
                       /\ mergedDepartures[j] = RealTimeOnlyDeparture(n, LastRealTime(n))

\* two filtered entries of one trip number, the first seven minutes late and
\* the last cancelled: the departure is cancelled with delay 0
C23_Witness ==
    /\ Aggregated
    /\ Len(filteredRealTime) = 2
    /\ filteredRealTime[1].TripNumber = filteredRealTime[2].TripNumber
    /\ filteredRealTime[1].ComputedDepartureTime = "2024-06-01 08:22"
    /\ filteredRealTime[2].DepartureStatus = "C"
    /\ \E j \in 1..Len(mergedDepartures) :
          /\ mergedDepartures[j].tripNumber = filteredRealTime[2].TripNumber
          /\ mergedDepartures[j].status = "cancelled"
          /\ mergedDepartures[j].delay = Num(0)

-----------------------------------------------------------------------------
(* Properties of the line lookup *)

\* line i of the table holds both codes
HoldsBoth(i, o, d) ==
    /\ SeqIncludes(LINE_DESTINATIONS[i].stations, o)
    /\ SeqIncludes(LINE_DESTINATIONS[i].stations, d)

\* C24: for the origin and destination of the request, getLineForRoute returns
\* the code of the first line of the table, in declaration order, whose station
\* list holds both codes; it returns no line exactly when no line holds both;
\* and swapping the two arguments gives the same result. The direction filter,
\* which applies it, keeps no entry of another line when a line is found.
C24_FirstLineHoldingBoth ==
    LET r == getLineForRoute(origin, destination)
        lines == 1..Len(LINE_DESTINATIONS)
    IN /\ (r = Undefined) <=> (\A i \in lines : ~HoldsBoth(i, origin, destination))
       /\ r # Undefined =>
             \E i \in lines :
                 /\ LINE_DESTINATIONS[i].code = r
                 /\ HoldsBoth(i, origin, destination)
                 /\ \A j \in 1..(i - 1) : ~HoldsBoth(j, origin, destination)
       /\ r = getLineForRoute(destination, origin)
       /\ (Aggregated /\ r # Undefined) =>
             \A k \in 1..Len(filteredRealTime) : Trim(filteredRealTime[k].LineCode) = r

\* Union to Union: every line holds both codes, the lookup returns LW, the
\* first line declared, and the filter keeps the LW train and drops the ST train
C24_Witness ==
    /\ Aggregated
    /\ origin = "UN" /\ destination = "UN"
    /\ Cardinality({i \in 1..Len(LINE_DESTINATIONS) : HoldsBoth(i, origin, destination)}) = 7
    /\ getLineForRoute(origin, destination) = "LW"
    /\ Len(RawLines(nextServiceResult)) = 2
    /\ Len(filteredRealTime) = 1
    /\ filteredRealTime[1].LineCode = "LW"

-----------------------------------------------------------------------------
(* Properties of malformed records *)

\* the records of a list that are objects
WellFormed(records) == SelectSeq(records, LAMBDA x : x.kind # "null")

\* the alerts result without its null messages
WithoutNullMessages(result) ==
    IF result.status = "fulfilled"
    THEN [result EXCEPT !.value.Messages = WellFormed(@)]
    ELSE result

\* C25: a null record among the next-service lines or the alert messages is
\* dropped silently: once both feeds have settled the request is answered 200,
\* its departures are those merged and sorted from the well-formed lines, and
\* its alerts are those parsed from the well-formed messages.
C25_MalformedRecordDropped ==
    (JourneyDone /\ journeyResult.status # "pending" /\ nextServiceResult.status # "pending") =>
        /\ response.status = 200
        /\ response.departures \in
              SortResults(WithDepartureTime(
                  MergeDepartures(scheduleDepartures,
                                  FilterRealTime(WellFormed(RawLines(nextServiceResult)),
                                                 origin, destination))))
        /\ response.alerts = RelevantAlerts(WithoutNullMessages(alertsResult), origin, destination)

\* C26: a trip record without a trip number yields no scheduled departure and
\* no departure of the answer: no departure carries the empty trip number that
\* stands for an absent one.
C26_NumberlessTripSkipped ==
    Aggregated =>
        /\ \A i \in 1..Len(scheduleDepartures) : scheduleDepartures[i].tripNumber # ""
        /\ \A j \in 1..Len(sortedDepartures) : sortedDepartures[j].tripNumber # ""

-----------------------------------------------------------------------------
(* Properties of the result list *)

\* how often a departure occurs in a list
CountIn(deps, dep) == Cardinality({i \in 1..Len(deps) : deps[i] = dep})

\* C27: the departures of the answer are exactly the merged entries that have
\* a departure time, each as often as the merged list holds it: none is
\* dropped, the list is not cut at any length, and no entry without a
\* departure time is returned.
C27_AllTimedDeparturesReturned ==
    JourneyOk =>
        /\ Len(response.departures)
              = Cardinality({i \in 1..Len(mergedDepartures) : mergedDepartures[i].departureTime # ""})
        /\ \A i \in 1..Len(mergedDepartures) :
              mergedDepartures[i].departureTime # "" =>
                  CountIn(response.departures, mergedDepartures[i])
                      = CountIn(mergedDepartures, mergedDepartures[i])
        /\ \A j \in 1..Len(response.departures) :
              /\ response.departures[j].departureTime # ""
              /\ CountIn(mergedDepartures, response.departures[j]) > 0

\* twelve merged entries, one of them without a departure time: the answer
\* holds the other eleven
C27_Witness ==
    /\ JourneyOk
    /\ Len(mergedDepartures) = 12
    /\ \E i \in 1..12 : mergedDepartures[i].departureTime = ""
    /\ Len(response.departures) = 11

-----------------------------------------------------------------------------
(* Properties of the direction filter for routes without a line *)

\* the direction text of an entry holds the display name of the destination,
\* letter case aside
NamesDestination(line) ==
    Includes(ToLowerCase(Trim(OrElse(line.DirectionName, ""))), ToLowerCase(StationName(destination)))

\* C28: when no line holds both origin and destination, a next-service entry
\* is accepted exactly when its direction text holds the display name of the
\* destination: an entry that does not name the destination is rejected,
\* whatever its line code and its terminal.
C28_NoLineOnlyByName ==
    (Aggregated /\ getLineForRoute(origin, destination) = Undefined) =>
        \A i \in 1..Len(RawLines(nextServiceResult)) :
            LET line == RawLines(nextServiceResult)[i]
            IN Accepted(line) <=> NamesDestination(line)

\* Burlington to Kennedy, on no common line: the entry that names Kennedy is
\* accepted, the Stouffville train to the far end of Kennedy's line is not
C28_Witness ==
    /\ Aggregated
    /\ origin = "BU" /\ destination = "KE"
    /\ getLineForRoute(origin, destination) = Undefined
    /\ Len(RawLines(nextServiceResult)) = 2
    /\ RawLines(nextServiceResult)[1].DirectionName = "Kennedy shuttle"
    /\ RawLines(nextServiceResult)[2].LineCode = "ST"
    /\ RawLines(nextServiceResult)[2].DirectionName = "ST - Unionville GO"
    /\ Len(filteredRealTime) = 1
    /\ filteredRealTime[1] = RawLines(nextServiceResult)[1]

\* the positions on a line of the stations whose display name the terminal
\* text of an entry holds
TerminalMatches(line) ==
    LET stations == LineStations(line.LineCode)
        text == ToLowerCase(Trim(AfterSeparator(Trim(line.DirectionName))))
    IN {i \in 1..Len(stations) : Includes(text, ToLowerCase(StationName(stations[i])))}

\* C29: for an entry on the line of the route whose direction text does not
\* name the destination and whose terminal text holds the display name of one
\* or several stations of the line, the terminal is the matching station that
\* comes last in the station order of the line, and the entry is accepted
\* exactly when the destination lies between the origin and that station, that
\* station included.
C29_LastMatchingStationIsTerminal ==
    Aggregated =>
        \A i \in 1..Len(RawLines(nextServiceResult)) :
            LET line == RawLines(nextServiceResult)[i]
                stations == LineStations(line.LineCode)
                held == TerminalMatches(line)
            IN (line.LineCode \in RouteLines /\ ~NamesDestination(line) /\ held # {}) =>
                  LET t == CHOOSE x \in held : \A y \in held : y <= x
                  IN Accepted(line) <=>
                        \E o \in PositionOf(stations, origin) :
                            \E d \in PositionOf(stations, destination) :
                                (o < d /\ d <= t) \/ (o > d /\ d >= t)

\* Milliken to Kennedy: the terminal text "Unionville GO" holds Unionville
\* (before Milliken) and Union (after Kennedy); Union is taken and the entry
\* is accepted
C29_Witness ==
    /\ Aggregated
    /\ origin = "MK" /\ destination = "KE"
    /\ Len(RawLines(nextServiceResult)) = 1
    /\ RawLines(nextServiceResult)[1].LineCode = "ST"
    /\ RawLines(nextServiceResult)[1].DirectionName = "ST - Unionville GO"
    /\ TerminalMatches(RawLines(nextServiceResult)[1]) = {6, 10}
    /\ filteredRealTime = RawLines(nextServiceResult)

-----------------------------------------------------------------------------
(* Properties of the saved routes *)

StoredRoutes == JSONParse(routesItem)

StoredIds == {StoredRoutes[i].id : i \in 1..Len(StoredRoutes)}

\* C30: after any calls of saveRoute and deleteRoute, interleaved or not, the
\* stored list holds no two routes of the same pair of stations in either
\* order, and every route for which saveRoute returned true is in the stored
\* list unless deleteRoute was called with its id.
C30_SavedRoutesKept ==
    /\ \A i, j \in 1..Len(StoredRoutes) :
          (i # j) => ~RouteExists(<<StoredRoutes[i]>>, StoredRoutes[j])
    /\ \A id \in storageLog.saved \ storageLog.deleteCalled : id \in StoredIds

====
